---------------------------- MODULE Spec2Model ----------------------------
(***************************************************************************)
(* RazorForge numeric runtime: the software binary16 engine                *)
(* (src/native/runtime/f16_functions.c) and the decimal dispatch layer     *)
(* (src/native/runtime/decimal_functions.c).                               *)
(*                                                                         *)
(* Representation of machine words.  TLC integers are 32-bit signed, so    *)
(*   - a uint16_t is an integer in 0..65535;                               *)
(*   - a float (binary32) is the record [s, e, m] of its sign bit, its     *)
(*     8-bit exponent field and its 23-bit mantissa field;                 *)
(*   - a uint32_t / uint64_t decimal pattern is the sequence of its 16-bit *)
(*     limbs, most significant first (2 limbs for d32, 4 for d64);         *)
(*   - a d128_t is the record [low, high] of two 4-limb words; the state   *)
(*     holds its eight limbs, most significant first.                      *)
(***************************************************************************)
EXTENDS Integers, Sequences, FiniteSets

VARIABLES
    w,     \* operand width of the current call: 16, 32, 64 or 128
    src,   \* which inputs the call sequence started from
    a,     \* first binary16 operand (bit pattern)
    b,     \* second binary16 operand (bit pattern)
    x,     \* the binary32 register: input of rf_f16_from_f32 / output of rf_f16_to_f32
    op,    \* name of the last operation applied ("none" before any call)
    r,     \* integer returned by the last operation (a binary16 pattern, a truth value, a sign)
    fpu,   \* the build's binary32 NaN conventions: [dnan, pick] (see DefaultNaN32)
    da,    \* first decimal operand: the limbs of its pattern, most significant first
    db,    \* second decimal operand
    dr,    \* decimal pattern returned by the last operation
    glbflags, \* the decimal library's status flags, per storage cell (see FlagCell)
    heap,  \* the blocks d32_to_string, d64_to_string and d128_to_string have
           \* returned and the caller has not freed: [id, size, text]
    proc,  \* "running", "terminated" once a trap has ended the process, or
           \* "exit(1)" once the stack-trace support has called exit(1)
    sa,    \* first text operand: the characters before the NUL
    sb,    \* second text operand
    thr,   \* per thread: the decimal call it is in and how far the call has got
    tls,   \* TRUE when the library was built with thread-local status flags
    rf_runtime_stack,       \* the thread's array of stack frames, indexed from 0
    rf_runtime_stack_depth, \* the number of frames in use
    out_trace, \* the pointer handed to the last __rf_stack_capture: "NULL", "trace", or "none"
    trace,     \* the caller's rf_StackTrace record: [frames, depth]
    overflow,  \* the overflow member of the last rf_i8_result returned
    y          \* the second binary32 input when two values are demoted

vars == <<w, src, a, b, x, op, r, fpu, da, db, dr,
          glbflags, heap, proc, sa, sb, thr, tls,
          rf_runtime_stack, rf_runtime_stack_depth, out_trace, trace, overflow,
          y>>

\* the stack-trace support of stacktrace.c and the caller's trace record
tracking == <<rf_runtime_stack, rf_runtime_stack_depth, out_trace, trace>>

\* what no binary16 operation touches, and the same without the status flags
runtime == <<glbflags, heap, proc, sa, sb, thr, tls, tracking, overflow, y>>

process == <<heap, proc, sa, sb, thr, tls, tracking, overflow, y>>

Threads == {1, 2}

\* the flag cells: cell 0 belongs to the thread that runs a sequential
\* program, and a library without thread-local storage has no other cell
FlagCells == {0} \cup Threads

ThreadIdle ==
    [pc |-> "idle", name |-> "none", P |-> <<>>, Q |-> <<>>,
     raised |-> {}, seen |-> {}, ret |-> <<>>]

RF_STACK_TRACE_MAX_FRAMES == 10

RF_RUNTIME_STACK_MAX == 256

\* rf_StackFrame, all members zero
ZeroFrame ==
    [file_id |-> 0, routine_id |-> 0, type_id |-> 0, line_no |-> 0,
     column_no |-> 0]

\* a trace record the caller has not initialised: what the memory held
StaleFrame ==
    [file_id |-> 43690, routine_id |-> 43690, type_id |-> 43690,
     line_no |-> 43690, column_no |-> 43690]

StaleTrace ==
    [frames |-> [i \in 0..(RF_STACK_TRACE_MAX_FRAMES - 1) |-> StaleFrame],
     depth |-> 43690]

\* the static storage is zero, no capture has been asked for
StackInit ==
    /\ rf_runtime_stack = [i \in 0..(RF_RUNTIME_STACK_MAX - 1) |-> ZeroFrame]
    /\ rf_runtime_stack_depth = 0
    /\ out_trace = "none"
    /\ trace = StaleTrace

\* no flag raised, nothing allocated, no text, every thread outside a call
RuntimeInit ==
    /\ StackInit
    /\ overflow = FALSE
    /\ y = [s |-> 0, e |-> 0, m |-> 0]
    /\ glbflags = [c \in FlagCells |-> {}]
    /\ heap = {}
    /\ proc = "running"
    /\ sa = <<>>
    /\ sb = <<>>
    /\ thr = [t \in Threads |-> ThreadIdle]
    /\ tls = FALSE

----------------------------------------------------------------------------
(* Bit helpers *)

RECURSIVE Pow2(_)
Pow2(n) == IF n <= 0 THEN 1 ELSE 2 * Pow2(n - 1)

\* x >> n for a non-negative x
Shr(v, n) == v \div Pow2(n)

\* bit n of v
Bit(v, n) == (v \div Pow2(n)) % 2

\* C truth value of a condition
CBool(p) == IF p THEN 1 ELSE 0

----------------------------------------------------------------------------
(* IEEE 754 binary16 bit layout constants *)

F16_SIGN_MASK == 32768
F16_EXP_MASK == 31744
F16_MANT_MASK == 1023
F16_EXP_BIAS == 15
F16_EXP_MAX == 31
F16_QNAN == 32256
F16_INF == 31744
F16_NEG_INF == 64512
F16_MAX_VALUE == 31743

\* fields of a 16-bit pattern: x & F16_SIGN_MASK, (x & F16_EXP_MASK) >> 10, x & F16_MANT_MASK
SignBits16(h) == (h \div F16_SIGN_MASK) * F16_SIGN_MASK
ExpField16(h) == (h % F16_SIGN_MASK) \div 1024
MantField16(h) == h % 1024

\* a binary32 value as its three fields
F32(s, e, m) == [s |-> s, e |-> e, m |-> m]

\* f32 & 0x7FFFFFFF
Abs32Bits(f) == f.e * 8388608 + f.m

F32_INF_BITS == 2139095040

----------------------------------------------------------------------------
(* Conversion helpers *)

\* Mutant: the tie is rounded up whatever the parity of the kept mantissa.
RoundUpTies_halfUp(f, mant) == Bit(f.m, 12) = 1

\* Mutant: the discarded bits are truncated, the mantissa is never incremented.
RoundUpTies_truncate(f, mant) == FALSE

\* The rounding step of rf_f16_from_f32 (normal range): round to nearest even
\* on the 13 discarded mantissa bits.
RoundUpTies(f, mant) ==
    LET round_bit == Bit(f.m, 12)
        sticky == CBool(f.m % 4096 # 0)
    IN  round_bit = 1 /\ (sticky = 1 \/ mant % 2 = 1)

\* Mutant: the flush threshold is one binade too low and the denormal branch
\* keeps a last bit for the values just below 2^-24.
rf_f16_from_f32_lateFlush(f) ==
    LET sign == f.s * F16_SIGN_MASK
        exp  == f.e - 127 + F16_EXP_BIAS
        mant == Shr(f.m, 13) % 1024
    IN  IF Abs32Bits(f) = 0 THEN sign
        ELSE IF exp <= 0 THEN
            IF exp < -10 THEN sign
            ELSE sign + Shr(mant + 1024, 0 - exp)
        ELSE IF exp >= F16_EXP_MAX THEN
            IF Abs32Bits(f) > F32_INF_BITS
            THEN sign + F16_QNAN + Shr(mant, 3)
            ELSE sign + F16_INF
        ELSE IF RoundUpTies(f, mant) THEN
            IF mant + 1 > F16_MANT_MASK THEN
                IF exp + 1 >= F16_EXP_MAX THEN sign + F16_INF
                ELSE sign + (exp + 1) * 1024
            ELSE sign + exp * 1024 + mant + 1
        ELSE sign + exp * 1024 + mant

\* Mutant: the NaN branch keeps the payload fragment without forcing the
\* quiet bit, so a NaN whose top mantissa bits are zero becomes an infinity.
rf_f16_from_f32_nanAsInf(f) ==
    LET sign == f.s * F16_SIGN_MASK
        exp  == f.e - 127 + F16_EXP_BIAS
        mant == Shr(f.m, 13) % 1024
    IN  IF Abs32Bits(f) = 0 THEN sign
        ELSE IF exp <= 0 THEN
            IF exp < -10 THEN sign
            ELSE sign + Shr(mant + 1024, 1 - exp)
        ELSE IF exp >= F16_EXP_MAX THEN
            IF Abs32Bits(f) > F32_INF_BITS
            THEN sign + F16_INF + Shr(mant, 3)
            ELSE sign + F16_INF
        ELSE IF RoundUpTies(f, mant) THEN
            IF mant + 1 > F16_MANT_MASK THEN
                IF exp + 1 >= F16_EXP_MAX THEN sign + F16_INF
                ELSE sign + (exp + 1) * 1024
            ELSE sign + exp * 1024 + mant + 1
        ELSE sign + exp * 1024 + mant

\* Mutant: a rounding carry out of the mantissa does not reach the exponent.
rf_f16_from_f32_noCarry(f) ==
    LET sign == f.s * F16_SIGN_MASK
        exp  == f.e - 127 + F16_EXP_BIAS
        mant == Shr(f.m, 13) % 1024
    IN  IF Abs32Bits(f) = 0 THEN sign
        ELSE IF exp <= 0 THEN
            IF exp < -10 THEN sign
            ELSE sign + Shr(mant + 1024, 1 - exp)
        ELSE IF exp >= F16_EXP_MAX THEN
            IF Abs32Bits(f) > F32_INF_BITS
            THEN sign + F16_QNAN + Shr(mant, 3)
            ELSE sign + F16_INF
        ELSE IF RoundUpTies(f, mant) THEN
            IF mant + 1 > F16_MANT_MASK THEN sign + exp * 1024
            ELSE sign + exp * 1024 + mant + 1
        ELSE sign + exp * 1024 + mant

\* uint16_t rf_f16_from_f32(float x)
rf_f16_from_f32(f) ==
    LET sign == f.s * F16_SIGN_MASK
        exp  == f.e - 127 + F16_EXP_BIAS
        mant == Shr(f.m, 13) % 1024
    IN  IF Abs32Bits(f) = 0 THEN sign
        ELSE IF exp <= 0 THEN
            IF exp < -10 THEN sign
            ELSE sign + Shr(mant + 1024, 1 - exp)
        ELSE IF exp >= F16_EXP_MAX THEN
            IF Abs32Bits(f) > F32_INF_BITS
            THEN sign + F16_QNAN + Shr(mant, 3)
            ELSE sign + F16_INF
        ELSE IF RoundUpTies(f, mant) THEN
            IF mant + 1 > F16_MANT_MASK THEN
                IF exp + 1 >= F16_EXP_MAX THEN sign + F16_INF
                ELSE sign + (exp + 1) * 1024
            ELSE sign + exp * 1024 + mant + 1
        ELSE sign + exp * 1024 + mant

\* The denormal normalisation loop of rf_f16_to_f32:
\*   while ((mant & 0x0400) == 0) { mant <<= 1; exp--; }
\* exp is a uint32_t in the source and wraps below zero; the wrap is undone by
\* the later exp++ and rebias, so the loop is carried out on integers here.
RECURSIVE Normalise(_, _)
Normalise(mant, exp) ==
    IF mant % 2048 >= 1024 THEN [mant |-> mant, exp |-> exp]
    ELSE Normalise(mant * 2, exp - 1)

\* Number of iterations of the same loop.
RECURSIVE NormaliseIterations(_)
NormaliseIterations(mant) ==
    IF mant % 2048 >= 1024 THEN 0 ELSE 1 + NormaliseIterations(mant * 2)

\* Mutant: the exp++ after the normalisation loop is left out.
rf_f16_to_f32_noExpInc(h) ==
    LET sign == h \div F16_SIGN_MASK
        exp  == ExpField16(h)
        mant == MantField16(h)
    IN  IF exp = 0 THEN
            IF mant = 0 THEN F32(sign, 0, 0)
            ELSE LET n == Normalise(mant, exp)
                 IN  F32(sign, n.exp - F16_EXP_BIAS + 127, (n.mant % 1024) * 8192)
        ELSE IF exp = F16_EXP_MAX THEN F32(sign, 255, mant * 8192)
        ELSE F32(sign, exp - F16_EXP_BIAS + 127, mant * 8192)

\* Mutant: a NaN leaves with its quiet bit (bit 22) set.
rf_f16_to_f32_quieting(h) ==
    LET sign == h \div F16_SIGN_MASK
        exp  == ExpField16(h)
        mant == MantField16(h)
    IN  IF exp = 0 THEN
            IF mant = 0 THEN F32(sign, 0, 0)
            ELSE LET n == Normalise(mant, exp)
                 IN  F32(sign, (n.exp + 1) - F16_EXP_BIAS + 127,
                         (n.mant % 1024) * 8192)
        ELSE IF exp = F16_EXP_MAX THEN
            F32(sign, 255,
                IF mant = 0 THEN 0 ELSE (mant % 512) * 8192 + 4194304)
        ELSE F32(sign, exp - F16_EXP_BIAS + 127, mant * 8192)

\* float rf_f16_to_f32(uint16_t x)
rf_f16_to_f32(h) ==
    LET sign == h \div F16_SIGN_MASK
        exp  == ExpField16(h)
        mant == MantField16(h)
    IN  IF exp = 0 THEN
            IF mant = 0 THEN F32(sign, 0, 0)
            ELSE LET n == Normalise(mant, exp)
                 IN  F32(sign, (n.exp + 1) - F16_EXP_BIAS + 127,
                         (n.mant % 1024) * 8192)
        ELSE IF exp = F16_EXP_MAX THEN F32(sign, 255, mant * 8192)
        ELSE F32(sign, exp - F16_EXP_BIAS + 127, mant * 8192)

----------------------------------------------------------------------------
(* Native binary32 arithmetic: the C operators +, -, *, / and the ordered   *)
(* comparisons on float, as IEEE 754 binary32 with round to nearest even    *)
(* (FLT_EVAL_METHOD 0).  A finite magnitude is M * 2^E; st = 1 says that    *)
(* the true magnitude lies strictly between M * 2^E and (M + 1) * 2^E.      *)
(*                                                                          *)
(* C leaves the NaN that an operation delivers to the platform.  fpu.dnan   *)
(* is the sign bit of the NaN generated by an invalid operation (1 on x86   *)
(* SSE, 0 on ARM and RISC-V); fpu.pick says which NaN is delivered when an  *)
(* operand is a NaN: the first NaN operand, the second, or the canonical    *)
(* NaN.                                                                     *)

FpuChoices == [dnan : 0..1, pick : {"first", "second", "canonical"}]

IsNaN32(f) == f.e = 255 /\ f.m # 0
IsInf32(f) == f.e = 255 /\ f.m = 0
IsZero32(f) == f.e = 0 /\ f.m = 0

\* a NaN with its quiet bit (bit 22) set
Quiet32(f) == F32(f.s, 255, (f.m % 4194304) + 4194304)

DefaultNaN32 == F32(fpu.dnan, 255, 4194304)

\* the NaN delivered when at least one operand is a NaN
PropNaN32(f, g) ==
    IF fpu.pick = "canonical" THEN F32(0, 255, 4194304)
    ELSE IF fpu.pick = "first"
         THEN (IF IsNaN32(f) THEN Quiet32(f) ELSE Quiet32(g))
         ELSE (IF IsNaN32(g) THEN Quiet32(g) ELSE Quiet32(f))

\* significand (with the implicit bit) and exponent of a finite value
Sig32(f) == IF f.e = 0 THEN f.m ELSE f.m + 8388608
Exp32(f) == IF f.e = 0 THEN -149 ELSE f.e - 150

RECURSIVE BitLen(_)
BitLen(n) == IF n = 0 THEN 0 ELSE 1 + BitLen(n \div 2)

\* M >> k rounded to nearest even, the bits below M summarised by st
RoundShift(M, k, st) ==
    IF k > 31 THEN 0
    ELSE LET half == Pow2(k - 1)
             q == (M \div half) \div 2
             rem == M - q * half * 2
         IN  IF rem > half \/ (rem = half /\ (st = 1 \/ q % 2 = 1))
             THEN q + 1 ELSE q

\* the binary32 value nearest to (-1)^s * (M [+ fraction]) * 2^E
RoundPack32(s, M, E, st) ==
    IF M = 0 THEN F32(s, 0, 0)
    ELSE
        LET L == BitLen(M)
            e0 == E + L - 1 + 127
            k == IF e0 >= 1 THEN L - 24 ELSE (-149) - E
            sig == IF k <= 0 THEN M * Pow2(-k) ELSE RoundShift(M, k, st)
        IN  IF e0 >= 255 THEN F32(s, 255, 0)
            ELSE LET bits == (IF e0 >= 1 THEN (e0 - 1) * 8388608 ELSE 0) + sig
                 IN  IF bits >= F32_INF_BITS THEN F32(s, 255, 0)
                     ELSE F32(s, bits \div 8388608, bits % 8388608)

\* |f| + |g| with sign s, both finite
AddMags32(s, f, g) ==
    LET big == IF Exp32(f) >= Exp32(g) THEN f ELSE g
        sml == IF Exp32(f) >= Exp32(g) THEN g ELSE f
        d == Exp32(big) - Exp32(sml)
    IN  IF d <= 6
        THEN RoundPack32(s, Sig32(big) * Pow2(d) + Sig32(sml), Exp32(sml), 0)
        ELSE LET n == d - 6
                 lo == IF n > 30 THEN 0 ELSE Sig32(sml) \div Pow2(n)
                 st == CBool(IF n > 30 THEN Sig32(sml) # 0
                             ELSE Sig32(sml) % Pow2(n) # 0)
             IN  RoundPack32(s, Sig32(big) * 64 + lo, Exp32(big) - 6, st)

\* |f| - |g| for |f| > |g|, with sign s, both finite
SubMags32(s, f, g) ==
    LET d == Exp32(f) - Exp32(g)
    IN  IF d <= 6
        THEN RoundPack32(s, Sig32(f) * Pow2(d) - Sig32(g), Exp32(g), 0)
        ELSE LET n == d - 6
                 lo == IF n > 30 THEN 0 ELSE Sig32(g) \div Pow2(n)
                 st == CBool(IF n > 30 THEN Sig32(g) # 0
                             ELSE Sig32(g) % Pow2(n) # 0)
             IN  RoundPack32(s, Sig32(f) * 64 - lo - st, Exp32(f) - 6, st)

\* float + float
f32_add(f, g) ==
    IF IsNaN32(f) \/ IsNaN32(g) THEN PropNaN32(f, g)
    ELSE IF IsInf32(f) THEN
        (IF IsInf32(g) /\ g.s # f.s THEN DefaultNaN32 ELSE f)
    ELSE IF IsInf32(g) THEN g
    ELSE IF f.s = g.s THEN AddMags32(f.s, f, g)
    ELSE IF Abs32Bits(f) = Abs32Bits(g) THEN F32(0, 0, 0)
    ELSE IF Abs32Bits(f) > Abs32Bits(g) THEN SubMags32(f.s, f, g)
    ELSE SubMags32(g.s, g, f)

\* float - float
f32_sub(f, g) ==
    IF IsNaN32(f) \/ IsNaN32(g) THEN PropNaN32(f, g)
    ELSE f32_add(f, F32(1 - g.s, g.e, g.m))

\* float * float
f32_mul(f, g) ==
    LET s == (f.s + g.s) % 2
    IN  IF IsNaN32(f) \/ IsNaN32(g) THEN PropNaN32(f, g)
        ELSE IF IsInf32(f) \/ IsInf32(g) THEN
            (IF IsZero32(f) \/ IsZero32(g) THEN DefaultNaN32 ELSE F32(s, 255, 0))
        ELSE
            LET ah == Sig32(f) \div 4096
                al == Sig32(f) % 4096
                bh == Sig32(g) \div 4096
                bl == Sig32(g) % 4096
                cross == ah * bl + al * bh
                lsum == al * bl + (cross % 4096) * 4096
                lo == lsum % 16777216
                hi == ah * bh + cross \div 4096 + lsum \div 16777216
                E == Exp32(f) + Exp32(g)
                L == IF hi = 0 THEN BitLen(lo) ELSE 24 + BitLen(hi)
                n == L - 30
            IN  IF n <= 0 THEN RoundPack32(s, hi * 16777216 + lo, E, 0)
                ELSE RoundPack32(s, hi * Pow2(24 - n) + lo \div Pow2(n), E + n,
                                 CBool(lo % Pow2(n) # 0))

\* n steps of restoring division: quotient bits of rem / den
RECURSIVE DivSteps(_, _, _, _)
DivSteps(rem, den, q, n) ==
    IF n = 0 THEN [q |-> q, rem |-> rem]
    ELSE IF rem >= den THEN DivSteps(2 * (rem - den), den, 2 * q + 1, n - 1)
         ELSE DivSteps(2 * rem, den, 2 * q, n - 1)

\* float / float
f32_div(f, g) ==
    LET s == (f.s + g.s) % 2
    IN  IF IsNaN32(f) \/ IsNaN32(g) THEN PropNaN32(f, g)
        ELSE IF IsInf32(f) THEN
            (IF IsInf32(g) THEN DefaultNaN32 ELSE F32(s, 255, 0))
        ELSE IF IsInf32(g) THEN F32(s, 0, 0)
        ELSE IF IsZero32(g) THEN
            (IF IsZero32(f) THEN DefaultNaN32 ELSE F32(s, 255, 0))
        ELSE IF IsZero32(f) THEN F32(s, 0, 0)
        ELSE
            LET sf == 24 - BitLen(Sig32(f))
                sg == 24 - BitLen(Sig32(g))
                N1 == Sig32(f) * Pow2(sf)
                N2 == Sig32(g) * Pow2(sg)
                d == DivSteps(N1, N2, 0, 28)
                E == (Exp32(f) - sf) - (Exp32(g) - sg) - 27
            IN  RoundPack32(s, d.q, E, CBool(d.rem # 0))

\* the value order of non-NaN binary32 values as an integer key (-0 = +0)
Key32(f) == IF f.s = 0 THEN Abs32Bits(f) ELSE -Abs32Bits(f)

\* float comparisons
f32_lt(f, g) == ~IsNaN32(f) /\ ~IsNaN32(g) /\ Key32(f) < Key32(g)
f32_le(f, g) == ~IsNaN32(f) /\ ~IsNaN32(g) /\ Key32(f) <= Key32(g)
f32_gt(f, g) == ~IsNaN32(f) /\ ~IsNaN32(g) /\ Key32(f) > Key32(g)
f32_ge(f, g) == ~IsNaN32(f) /\ ~IsNaN32(g) /\ Key32(f) >= Key32(g)

----------------------------------------------------------------------------
(* Classification predicates and special values (binary16) *)

\* int32_t rf_f16_isnan(uint16_t x)
rf_f16_isnan(h) == CBool(ExpField16(h) = F16_EXP_MAX /\ MantField16(h) # 0)

\* int32_t rf_f16_isinf(uint16_t x)
rf_f16_isinf(h) == CBool(h % F16_SIGN_MASK = F16_INF)

\* int32_t rf_f16_isfinite(uint16_t x)
rf_f16_isfinite(h) == CBool(ExpField16(h) # F16_EXP_MAX)

\* Mutant: the lower bound on the exponent field is missing.
rf_f16_isnormal_noLowerBound(h) == CBool(ExpField16(h) < F16_EXP_MAX)

\* int32_t rf_f16_isnormal(uint16_t x)
rf_f16_isnormal(h) == CBool(ExpField16(h) > 0 /\ ExpField16(h) < F16_EXP_MAX)

\* int32_t rf_f16_iszero(uint16_t x)
rf_f16_iszero(h) == CBool(h % F16_SIGN_MASK = 0)

\* int32_t rf_f16_signbit(uint16_t x)
rf_f16_signbit(h) == CBool(SignBits16(h) # 0)

\* Mutant: the NaN constructor returns the infinity pattern.
rf_f16_nan_asInf == F16_INF

rf_f16_nan == F16_QNAN
rf_f16_inf == F16_INF
rf_f16_neg_inf == F16_NEG_INF

----------------------------------------------------------------------------
(* Arithmetic (binary16): promote, operate in binary32, demote *)

\* Mutant: the operands are subtracted.
rf_f16_add_asSub(h1, h2) ==
    rf_f16_from_f32(f32_sub(rf_f16_to_f32(h1), rf_f16_to_f32(h2)))

rf_f16_add(h1, h2) ==
    rf_f16_from_f32(f32_add(rf_f16_to_f32(h1), rf_f16_to_f32(h2)))

rf_f16_sub(h1, h2) ==
    rf_f16_from_f32(f32_sub(rf_f16_to_f32(h1), rf_f16_to_f32(h2)))

rf_f16_mul(h1, h2) ==
    rf_f16_from_f32(f32_mul(rf_f16_to_f32(h1), rf_f16_to_f32(h2)))

rf_f16_div(h1, h2) ==
    rf_f16_from_f32(f32_div(rf_f16_to_f32(h1), rf_f16_to_f32(h2)))

\* x ^ F16_SIGN_MASK
rf_f16_neg(h) == IF h >= F16_SIGN_MASK THEN h - F16_SIGN_MASK ELSE h + F16_SIGN_MASK

----------------------------------------------------------------------------
(* Comparison operations (binary16) *)

\* Mutant: the NaN guard is missing and the patterns are compared.
rf_f16_eq_noNaNGuard(h1, h2) ==
    IF h1 % F16_SIGN_MASK = 0 /\ h2 % F16_SIGN_MASK = 0 THEN 1
    ELSE CBool(h1 = h2)

\* Mutant: the signed-zero case is missing.
rf_f16_eq_noZeroCase(h1, h2) ==
    IF rf_f16_isnan(h1) # 0 \/ rf_f16_isnan(h2) # 0 THEN 0
    ELSE CBool(h1 = h2)

rf_f16_eq(h1, h2) ==
    IF rf_f16_isnan(h1) # 0 \/ rf_f16_isnan(h2) # 0 THEN 0
    ELSE IF h1 % F16_SIGN_MASK = 0 /\ h2 % F16_SIGN_MASK = 0 THEN 1
    ELSE CBool(h1 = h2)

rf_f16_ne(h1, h2) == CBool(rf_f16_eq(h1, h2) = 0)

\* Mutant: the 16-bit patterns are compared as unsigned integers.
rf_f16_lt_bits(h1, h2) ==
    IF rf_f16_isnan(h1) # 0 \/ rf_f16_isnan(h2) # 0 THEN 0
    ELSE CBool(h1 < h2)

rf_f16_lt(h1, h2) ==
    IF rf_f16_isnan(h1) # 0 \/ rf_f16_isnan(h2) # 0 THEN 0
    ELSE CBool(f32_lt(rf_f16_to_f32(h1), rf_f16_to_f32(h2)))

rf_f16_le(h1, h2) ==
    IF rf_f16_isnan(h1) # 0 \/ rf_f16_isnan(h2) # 0 THEN 0
    ELSE CBool(f32_le(rf_f16_to_f32(h1), rf_f16_to_f32(h2)))

rf_f16_gt(h1, h2) ==
    IF rf_f16_isnan(h1) # 0 \/ rf_f16_isnan(h2) # 0 THEN 0
    ELSE CBool(f32_gt(rf_f16_to_f32(h1), rf_f16_to_f32(h2)))

rf_f16_ge(h1, h2) ==
    IF rf_f16_isnan(h1) # 0 \/ rf_f16_isnan(h2) # 0 THEN 0
    ELSE CBool(f32_ge(rf_f16_to_f32(h1), rf_f16_to_f32(h2)))

----------------------------------------------------------------------------
(* Basic math operations (binary16) *)

\* x & ~F16_SIGN_MASK
rf_f16_abs(h) == h % F16_SIGN_MASK

\* (x & ~F16_SIGN_MASK) | (y & F16_SIGN_MASK)
rf_f16_copysign(h1, h2) == (h1 % F16_SIGN_MASK) + SignBits16(h2)

\* Mutant: only the first operand is tested for NaN.
rf_f16_min_firstOnly(h1, h2) ==
    IF rf_f16_isnan(h1) # 0 THEN h2
    ELSE IF rf_f16_lt(h1, h2) # 0 THEN h1 ELSE h2

\* Mutant: the first operand is returned when it is less than or equal.
rf_f16_min_le(h1, h2) ==
    IF rf_f16_isnan(h1) # 0 THEN h2
    ELSE IF rf_f16_isnan(h2) # 0 THEN h1
    ELSE IF rf_f16_le(h1, h2) # 0 THEN h1 ELSE h2

rf_f16_min(h1, h2) ==
    IF rf_f16_isnan(h1) # 0 THEN h2
    ELSE IF rf_f16_isnan(h2) # 0 THEN h1
    ELSE IF rf_f16_lt(h1, h2) # 0 THEN h1 ELSE h2

rf_f16_max(h1, h2) ==
    IF rf_f16_isnan(h1) # 0 THEN h2
    ELSE IF rf_f16_isnan(h2) # 0 THEN h1
    ELSE IF rf_f16_gt(h1, h2) # 0 THEN h1 ELSE h2

----------------------------------------------------------------------------
(* Inputs of the conversion specification *)

\* stride of the sampled binary32 mantissas
MantStep == 131071

All16 == 0..65535

\* mantissas at the edges of the 13 discarded bits, and a strided sample
EdgeMants ==
    {0, 1, 4095, 4096, 4097, 8191, 8192, 8193, 12287, 12288, 12289, 16383,
     16384, 4194303, 4194304, 4194305, 8372223, 8372224, 8376319, 8376320,
     8380415, 8380416, 8380417, 8384511, 8384512, 8384513, 8388607}

StrideMants == {k * MantStep : k \in 0..(8388607 \div MantStep)}

\* every mantissa of the binade holding 65504 and 65520 from 65504 on
TopMants == 8380416..8388607

SampleMants == EdgeMants \cup StrideMants

----------------------------------------------------------------------------
(* Before any call: no operand loaded, no result returned. *)

Init ==
    /\ w = 16
    /\ src = "none"
    /\ a = 0
    /\ b = 0
    /\ x = F32(0, 0, 0)
    /\ op = "none"
    /\ r = 0
    /\ fpu = [dnan |-> 0, pick |-> "first"]
    /\ da = <<>>
    /\ db = <<>>
    /\ dr = <<>>
    /\ RuntimeInit

----------------------------------------------------------------------------
(* The conversion specification: a 16-bit pattern is promoted and demoted   *)
(* again, or a binary32 value handed in by the caller is demoted.           *)

\* x = rf_f16_to_f32(h) for a caller-chosen pattern h
Promote ==
    /\ op = "none"
    /\ \E h \in All16 :
        /\ a' = h
        /\ x' = rf_f16_to_f32(h)
    /\ src' = "f16"
    /\ op' = "rf_f16_to_f32"
    /\ UNCHANGED <<w, b, r, fpu, da, db, dr, runtime>>

\* r = rf_f16_from_f32(x) on the promoted value
Demote ==
    /\ op = "rf_f16_to_f32"
    /\ r' = rf_f16_from_f32(x)
    /\ op' = "rf_f16_from_f32"
    /\ UNCHANGED <<w, src, a, b, x, fpu, da, db, dr, runtime>>

\* r = rf_f16_from_f32(f) for a caller-chosen binary32 value f
DemoteInput ==
    /\ op = "none"
    /\ \E s \in 0..1 :
        \/ \E e \in 0..255, m \in SampleMants :
            /\ x' = F32(s, e, m)
            /\ r' = rf_f16_from_f32(F32(s, e, m))
        \/ \E m \in TopMants :
            /\ x' = F32(s, 142, m)
            /\ r' = rf_f16_from_f32(F32(s, 142, m))
    /\ src' = "f32"
    /\ op' = "rf_f16_from_f32"
    /\ UNCHANGED <<w, a, b, fpu, da, db, dr, runtime>>

\* operands of the sign operations: every infinity and NaN pattern, and a
\* strided sample of the others
SignOperands == {h \in All16 : (h % 32768) >= 31744 \/ h % 257 = 0}

\* the patterns whose sign rf_f16_copysign takes: zeros and NaNs of both signs
SignDonors == {0, 32768, 32256, 65024}

\* a call name(h1, h2) of a sign operation returning res
SignCall(name, from, h1, h2, res) ==
    /\ op' = name
    /\ src' = from
    /\ a' = h1
    /\ b' = h2
    /\ r' = res
    /\ UNCHANGED <<w, x, fpu, da, db, dr, runtime>>

\* rf_f16_neg of a caller-chosen pattern
F16Neg ==
    /\ op = "none"
    /\ \E h \in SignOperands : SignCall("rf_f16_neg", "caller", h, 0, rf_f16_neg(h))

\* rf_f16_neg of the pattern rf_f16_neg has just returned; a stays the
\* first call's operand
F16NegAgain ==
    /\ op = "rf_f16_neg"
    /\ src = "caller"
    /\ SignCall("rf_f16_neg", "rf_f16_neg", a, 0, rf_f16_neg(r))

\* rf_f16_abs of a caller-chosen pattern
F16Abs ==
    /\ op = "none"
    /\ \E h \in SignOperands : SignCall("rf_f16_abs", "caller", h, 0, rf_f16_abs(h))

\* rf_f16_copysign of caller-chosen patterns
F16CopySign ==
    /\ op = "none"
    /\ \E h1 \in SignOperands, h2 \in SignDonors :
        SignCall("rf_f16_copysign", "caller", h1, h2, rf_f16_copysign(h1, h2))

\* the mantissas sampled in the binade of exponent field e
MantsOf(e) == IF e = 142 THEN SampleMants \cup TopMants ELSE SampleMants

\* the sampled mantissa that follows each sampled mantissa, -1 after the last
SampleSucc ==
    [m \in SampleMants |->
        LET above == {n \in SampleMants : n > m}
        IN  IF above = {} THEN -1
            ELSE CHOOSE n \in above : \A k \in above : n <= k]

\* the sampled magnitude that follows the sampled finite magnitude f: in
\* the binade of 65504 every mantissa from 8380416 on is sampled
MagNext(f) ==
    LET top == f.e = 142
        nxt == IF top /\ f.m >= 8380416
               THEN (IF f.m < 8388607 THEN f.m + 1 ELSE -1)
               ELSE IF top /\ (SampleSucc[f.m] = -1 \/ SampleSucc[f.m] > 8380416)
               THEN 8380416
               ELSE SampleSucc[f.m]
    IN  IF nxt = -1 THEN F32(0, f.e + 1, 0) ELSE F32(0, f.e, nxt)

\* two binary32 values lo <= hi chosen by the caller are demoted: a sampled
\* value and the sampled value that follows it, or the two zeros in either
\* order
DemotePair ==
    /\ op = "none"
    /\ \E lo \in [s : {0}, e : 0..254, m : SampleMants]
                     \cup [s : {0}, e : {142}, m : TopMants],
          s \in 0..1 :
        \E p \in (LET hi == MagNext(lo)
                  IN  IF s = 0 THEN {<<lo, hi>>}
                      ELSE {<<F32(1, hi.e, hi.m), F32(1, lo.e, lo.m)>>})
                 \cup (IF Abs32Bits(lo) = 0
                       THEN {<<F32(s, 0, 0), F32(1 - s, 0, 0)>>} ELSE {}) :
            /\ x' = p[1]
            /\ y' = p[2]
            /\ a' = rf_f16_from_f32(p[1])
            /\ b' = rf_f16_from_f32(p[2])
    /\ src' = "f32 pair"
    /\ op' = "rf_f16_from_f32"
    /\ UNCHANGED <<w, r, fpu, da, db, dr, glbflags, heap, proc, sa, sb, thr,
                   tls, tracking, overflow>>

Next ==
    \/ Promote \/ Demote \/ DemoteInput \/ DemotePair
    \/ F16Neg \/ F16NegAgain \/ F16Abs \/ F16CopySign

Spec == Init /\ [][Next]_vars

\* the state after rf_f16_from_f32(rf_f16_to_f32(a))
RoundTripped == src = "f16" /\ op = "rf_f16_from_f32"

\* the state after rf_f16_from_f32(x) on a binary32 input
Demoted == src = "f32" /\ op = "rf_f16_from_f32"

\* x is a finite binary32 value
Finite32(f) == f.e < 255

----------------------------------------------------------------------------
(* Claims on the conversions *)

\* C1: every 16-bit pattern whose exponent field is not 31 (signed zeros,
\* subnormals, normals) comes back bit-for-bit from
\* rf_f16_from_f32(rf_f16_to_f32(h)).
C1_RoundTripFinite ==
    (RoundTripped /\ ExpField16(a) # F16_EXP_MAX) => r = a

\* the smallest-magnitude negative subnormal made the round trip
C1_Witness == RoundTripped /\ a = 32769 /\ x = F32(1, 103, 0) /\ r = 32769

\* C2 as stated: rf_f16_from_f32(1.0 + 2^-11) is the pattern returned for
\* 1.0 + 2^-10.
C2_TieSameAsNextUp ==
    (Demoted /\ x = F32(0, 127, 4096)) => r = rf_f16_from_f32(F32(0, 127, 8192))

\* C2 amended: rf_f16_from_f32(1.0 + 2^-11) is the pattern 0x3C00 returned
\* for 1.0 (the tie goes down to the even mantissa) and differs from the
\* pattern 0x3C01 returned for 1.0 + 2^-10.
C2_TieToEven ==
    (Demoted /\ x = F32(0, 127, 4096)) =>
        /\ r = 15360
        /\ r = rf_f16_from_f32(F32(0, 127, 0))
        /\ r # rf_f16_from_f32(F32(0, 127, 8192))

\* 1.0 + 2^-11 was demoted to 0x3C00
C2_Witness == Demoted /\ x = F32(0, 127, 4096) /\ r = 15360

\* C3: finite x with 65504 <= |x| < 65520 gives sign|0x7BFF; finite x with
\* |x| >= 65520 and the infinities give sign|0x7C00.
C3_Saturation ==
    Demoted =>
        LET mag == Abs32Bits(x)
            sign == x.s * F16_SIGN_MASK
            bits65504 == 142 * 8388608 + 8380416
            bits65520 == 142 * 8388608 + 8384512
        IN  /\ (Finite32(x) /\ mag >= bits65504 /\ mag < bits65520)
                => r = sign + F16_MAX_VALUE
            /\ ((Finite32(x) /\ mag >= bits65520) \/ mag = F32_INF_BITS)
                => r = sign + F16_INF

\* -65520.0f was demoted to negative infinity
C3_Witness == Demoted /\ x = F32(1, 142, 8384512) /\ r = F16_NEG_INF

\* the state after rf_f16_to_f32(a)
Promoted == src = "f16" /\ op = "rf_f16_to_f32"

\* rebiased exponent of a binary32 value: exponent field - 127 + 15
Rebiased(f) == f.e - 112

\* n / u rounded to the nearest integer, ties to the even integer (u even)
NearestEvenQuot(n, u) ==
    LET q == n \div u
        rem == n % u
    IN  IF 2 * rem > u \/ (2 * rem = u /\ q % 2 = 1) THEN q + 1 ELSE q

\* The binary16 pattern nearest to the finite nonzero binary32 value f, ties
\* to the even mantissa, for f of rebiased exponent -9..30.  The binary16
\* significand is counted in units of 2^(E-25), E = max(rebiased, 1): the
\* significand 2048 is the power of two of the next exponent, and the
\* exponent 31 is the infinity that overflow rounds to.
NearestF16(f) ==
    LET sign == f.s * F16_SIGN_MASK
        exp16 == IF Rebiased(f) >= 1 THEN Rebiased(f) ELSE 1
        sig == NearestEvenQuot(8388608 + f.m, Pow2(exp16 + 125 - f.e))
    IN  IF Rebiased(f) >= 1
        THEN sign + (exp16 - 1) * 1024 + sig
        ELSE sign + sig

\* C16: in the normal range (rebiased exponent 1..30) rf_f16_from_f32 returns
\* the nearest binary16 value, ties to the even mantissa: the truncated
\* pattern is incremented exactly when bit 12 is set and (a lower bit is set
\* or the truncated mantissa is odd); the increment carries into the
\* exponent and reaches the infinity from exponent 30.
C16_NormalNearestEven ==
    (Demoted /\ Rebiased(x) \in 1..30) =>
        LET sign == x.s * F16_SIGN_MASK
            mant == Shr(x.m, 13)
            truncated == sign + Rebiased(x) * 1024 + mant
            up == Bit(x.m, 12) = 1 /\ (x.m % 4096 # 0 \/ mant % 2 = 1)
        IN  /\ r = truncated + CBool(up)
            /\ r = NearestF16(x)
            /\ (up /\ mant = 1023) =>
                    /\ MantField16(r) = 0
                    /\ ExpField16(r) = Rebiased(x) + 1
            /\ (up /\ mant = 1023 /\ Rebiased(x) = 30) => r = sign + F16_INF

\* 1.0 + 3 * 2^-11, a tie above an odd mantissa, was demoted to 0x3C02
C16_Witness == Demoted /\ x = F32(0, 127, 12288) /\ r = 15362

\* the carry out of the mantissa reached the exponent: 2.0 - 2^-23 gave 2.0
C16_WitnessCarry == Demoted /\ x = F32(0, 127, 8388607) /\ r = 16384

\* C17 as stated: in the subnormal range (rebiased exponent -9..0)
\* rf_f16_from_f32 returns the nearest binary16 value, ties to even.
C17_SubnormalNearestEven ==
    (Demoted /\ Rebiased(x) \in -9..0) => r = NearestF16(x)

\* What the denormal branch computes instead: the significand with its
\* implicit bit, shifted right, every discarded bit dropped.
C17_SubnormalTruncated ==
    (Demoted /\ Rebiased(x) \in -9..0) =>
        r = x.s * F16_SIGN_MASK
              + ((8388608 + x.m) \div Pow2(126 - x.e))

\* the largest binary32 value below 2^-14 was demoted to 0x03FF; the nearest
\* binary16 value is the smallest normal 0x0400
C17_Witness ==
    /\ Demoted /\ x = F32(0, 112, 8388607) /\ r = 1023
    /\ NearestF16(x) = 1024

\* C18: a nonzero binary32 value of rebiased exponent <= -10 (binary32
\* subnormals included) and a zero are demoted to the signed zero of their
\* sign.
C18_FlushToZero ==
    (Demoted /\ Rebiased(x) <= -10) => r = x.s * F16_SIGN_MASK

\* the largest binary32 value below 2^-24, negative, was flushed to 0x8000
C18_Witness == Demoted /\ x = F32(1, 102, 8388607) /\ r = 32768

\* a binary32 subnormal was flushed to 0x0000
C18_WitnessSubnormal == Demoted /\ x = F32(0, 0, 1) /\ r = 0

\* C19: the result of rf_f16_from_f32 satisfies rf_f16_isnan exactly when the
\* input is a NaN; for a NaN it is sign | 0x7E00 | (bits 22..13 >> 3), for
\* any other input its exponent field is below 31 or its mantissa is 0.
C19_NaNIffNaN ==
    Demoted =>
        LET nan == Abs32Bits(x) > F32_INF_BITS
        IN  /\ (rf_f16_isnan(r) = 1) <=> nan
            /\ nan => /\ r = x.s * F16_SIGN_MASK + F16_QNAN
                               + Shr(Shr(x.m, 13), 3)
                      /\ ExpField16(r) = F16_EXP_MAX
                      /\ MantField16(r) # 0
            /\ ~nan => (ExpField16(r) < F16_EXP_MAX \/ MantField16(r) = 0)

\* a negative signaling NaN whose payload lies in the discarded bits was
\* demoted to 0xFE00
C19_Witness == Demoted /\ x = F32(1, 255, 1) /\ r = 65024

\* C20: rf_f16_to_f32 on every pattern: a subnormal m is normalised in at
\* most 10 iterations to the normal binary32 value m * 2^-24; exponent
\* field 31 gives sign | 0x7F800000 | (m << 13); exponent field e in 1..30
\* gives sign | ((e + 112) << 23) | (m << 13).
C20_PromoteExact ==
    Promoted =>
        LET sign == a \div F16_SIGN_MASK
            e == ExpField16(a)
            m == MantField16(a)
        IN  /\ x.s = sign
            /\ (e = 0 /\ m # 0) =>
                    /\ NormaliseIterations(m) <= 10
                    /\ x.e \in 103..112
                    /\ (8388608 + x.m) % Pow2(126 - x.e) = 0
                    /\ (8388608 + x.m) \div Pow2(126 - x.e) = m
            /\ e = F16_EXP_MAX => x = F32(sign, 255, m * 8192)
            /\ e \in 1..30 => x = F32(sign, e + 112, m * 8192)
            /\ (e = 0 /\ m = 0) => x = F32(sign, 0, 0)

\* the smallest subnormal took the full ten iterations and became 2^-24
C20_Witness ==
    Promoted /\ a = 1 /\ NormaliseIterations(1) = 10 /\ x = F32(0, 103, 0)

----------------------------------------------------------------------------
(* The operations specification: one call of an operation on operands the   *)
(* caller chooses, or a classification of a special-value constructor's     *)
(* result.                                                                  *)

\* stride of the sampled binary16 operands
F16Step == 2731

\* zeros, subnormal and normal edges, one, infinities and NaNs of both signs
F16Edges ==
    {0, 32768, 1, 32769, 1023, 1024, 15359, 15360, 48128, 15361, 16384,
     17664, 50432, 31743, 64511, 31744, 64512, 31745, 32255, 32256, 65024,
     32767, 65535, 64513}

F16Samples == F16Edges \cup {k * F16Step : k \in 0..(65535 \div F16Step)}

F16Constructors == {"rf_f16_nan", "rf_f16_inf", "rf_f16_neg_inf"}

\* a call name(h1, h2) returning res, on operands chosen by the caller
Call16(name, h1, h2, res) ==
    /\ w' = 16
    /\ op' = name
    /\ src' = "caller"
    /\ a' = h1
    /\ b' = h2
    /\ r' = res
    /\ UNCHANGED <<x, da, db, dr, runtime>>

\* a call of the predicate name on h, returning res; from is the origin of h
Classify16(name, h, from, res) ==
    /\ w' = 16
    /\ op' = name
    /\ src' = from
    /\ a' = h
    /\ b' = 0
    /\ r' = res
    /\ UNCHANGED <<x, fpu, da, db, dr, runtime>>

F16Add ==
    /\ op = "none"
    /\ \E h1 \in F16Samples, h2 \in F16Samples :
           Call16("rf_f16_add", h1, h2, rf_f16_add(h1, h2))
    /\ UNCHANGED fpu

F16Sub ==
    /\ op = "none"
    /\ \E h1 \in F16Samples, h2 \in F16Samples :
           Call16("rf_f16_sub", h1, h2, rf_f16_sub(h1, h2))
    /\ UNCHANGED fpu

F16Mul ==
    /\ op = "none"
    /\ \E h1 \in F16Samples, h2 \in F16Samples :
           Call16("rf_f16_mul", h1, h2, rf_f16_mul(h1, h2))
    /\ UNCHANGED fpu

F16Div ==
    /\ op = "none"
    /\ \E h1 \in F16Samples, h2 \in F16Samples :
           Call16("rf_f16_div", h1, h2, rf_f16_div(h1, h2))
    /\ UNCHANGED fpu

F16Eq ==
    /\ op = "none"
    /\ \E h1 \in F16Samples, h2 \in F16Samples : Call16("rf_f16_eq", h1, h2, rf_f16_eq(h1, h2))
    /\ UNCHANGED fpu

F16Ne ==
    /\ op = "none"
    /\ \E h1 \in F16Samples, h2 \in F16Samples : Call16("rf_f16_ne", h1, h2, rf_f16_ne(h1, h2))
    /\ UNCHANGED fpu

F16Lt ==
    /\ op = "none"
    /\ \E h1 \in F16Samples, h2 \in F16Samples : Call16("rf_f16_lt", h1, h2, rf_f16_lt(h1, h2))
    /\ UNCHANGED fpu

F16Le ==
    /\ op = "none"
    /\ \E h1 \in F16Samples, h2 \in F16Samples : Call16("rf_f16_le", h1, h2, rf_f16_le(h1, h2))
    /\ UNCHANGED fpu

F16Gt ==
    /\ op = "none"
    /\ \E h1 \in F16Samples, h2 \in F16Samples : Call16("rf_f16_gt", h1, h2, rf_f16_gt(h1, h2))
    /\ UNCHANGED fpu

F16Ge ==
    /\ op = "none"
    /\ \E h1 \in F16Samples, h2 \in F16Samples : Call16("rf_f16_ge", h1, h2, rf_f16_ge(h1, h2))
    /\ UNCHANGED fpu

F16Min ==
    /\ op = "none"
    /\ \E h1 \in F16Samples, h2 \in F16Samples : Call16("rf_f16_min", h1, h2, rf_f16_min(h1, h2))
    /\ UNCHANGED fpu

F16Max ==
    /\ op = "none"
    /\ \E h1 \in F16Samples, h2 \in F16Samples : Call16("rf_f16_max", h1, h2, rf_f16_max(h1, h2))
    /\ UNCHANGED fpu

\* rf_f16_nan(), rf_f16_inf(), rf_f16_neg_inf()
F16Special ==
    /\ op = "none"
    /\ \/ op' = "rf_f16_nan" /\ r' = rf_f16_nan
       \/ op' = "rf_f16_inf" /\ r' = rf_f16_inf
       \/ op' = "rf_f16_neg_inf" /\ r' = rf_f16_neg_inf
    /\ w' = 16
    /\ src' = "caller"
    /\ UNCHANGED <<a, b, x, fpu, da, db, dr, runtime>>

\* rf_f16_isnan of an operand the caller chooses, or of the value a special-value
\* constructor has just returned
F16IsNan ==
    \/ /\ op = "none"
       /\ \E h \in F16Samples : Classify16("rf_f16_isnan", h, "caller", rf_f16_isnan(h))
    \/ /\ op \in F16Constructors
       /\ Classify16("rf_f16_isnan", r, op, rf_f16_isnan(r))

\* rf_f16_isinf of an operand the caller chooses, or of the value a special-value
\* constructor has just returned
F16IsInf ==
    \/ /\ op = "none"
       /\ \E h \in F16Samples : Classify16("rf_f16_isinf", h, "caller", rf_f16_isinf(h))
    \/ /\ op \in F16Constructors
       /\ Classify16("rf_f16_isinf", r, op, rf_f16_isinf(r))

\* rf_f16_signbit of an operand the caller chooses, or of the value a special-value
\* constructor has just returned
F16SignBit ==
    \/ /\ op = "none"
       /\ \E h \in F16Samples : Classify16("rf_f16_signbit", h, "caller", rf_f16_signbit(h))
    \/ /\ op \in F16Constructors
       /\ Classify16("rf_f16_signbit", r, op, rf_f16_signbit(r))

----------------------------------------------------------------------------
(* The decimal widths.  decimal_functions.c forwards every operation to the *)
(* Intel decimal library, which encodes IEEE 754-2008 decimals in the       *)
(* binary integer decimal (BID) format: a sign bit, a combination field     *)
(* that holds the biased exponent and the leading coefficient bits or marks *)
(* an infinity (11110) or a NaN (11111, the next bit set for a signaling    *)
(* NaN), and the trailing coefficient bits.  A coefficient above            *)
(* 10^prec - 1 is non-canonical and stands for zero.                        *)
(*                                                                          *)
(* A pattern is held as a sequence of 16-bit limbs, most significant first: *)
(* two limbs for uint32_t, four for uint64_t.  BID_UINT128 is the array     *)
(* w[0], w[1] of two 64-bit words, w[1] the most significant.               *)

BID32 ==
    [limbs |-> 2, eb |-> 8, prec |-> 7,
     maxCoeff |-> <<152, 38527>>, maxPayload |-> <<15, 16959>>]

BID64 ==
    [limbs |-> 4, eb |-> 10, prec |-> 16,
     maxCoeff |-> <<35, 34546, 28608, 65535>>,
     maxPayload |-> <<3, 36222, 42182, 32767>>]

BID128 ==
    [limbs |-> 8, eb |-> 14, prec |-> 34,
     maxCoeff |-> <<1, 60681, 48813, 34752, 14221, 36451, 65535, 65535>>,
     maxPayload |-> <<0, 12621, 50756, 36243, 14529, 23305, 65535, 65535>>]

ZeroLimbs(n) == [i \in 1..n |-> 0]

\* the limbs of a library value of format F, and the value of given limbs
BidLimbs(F, v) == IF F.limbs = 8 THEN v[1] \o v[0] ELSE v

BidValue(F, L) ==
    IF F.limbs = 8
    THEN [i \in 0..1 |-> IF i = 1 THEN SubSeq(L, 1, 4) ELSE SubSeq(L, 5, 8)]
    ELSE L

\* A > B for limb sequences of one length
LimbsGreater(A, B) ==
    \E i \in 1..Len(A) : A[i] > B[i] /\ \A j \in 1..(i - 1) : A[j] = B[j]

BidSign(L) == L[1] \div 32768

\* the 31 bits that follow the sign bit
BidHead(L) == (L[1] % 32768) * 65536 + L[2]

BidIsNaN(L) == BidHead(L) \div 67108864 = 31

BidIsInf(L) == BidHead(L) \div 67108864 = 30

BidIsSNaN(L) == BidIsNaN(L) /\ Bit(BidHead(L), 25) = 1

\* steering bits 11: the exponent follows them and the coefficient has the
\* implied leading bits 100
BidLargeForm(L) == BidHead(L) \div 536870912 = 3

BidExp(F, L) ==
    IF BidLargeForm(L)
    THEN (BidHead(L) \div Pow2(29 - F.eb)) % Pow2(F.eb)
    ELSE BidHead(L) \div Pow2(31 - F.eb)

BidRawCoeff(F, L) ==
    LET top == IF BidLargeForm(L)
               THEN Pow2(31 - F.eb) + (BidHead(L) % Pow2(29 - F.eb))
               ELSE BidHead(L) % Pow2(31 - F.eb)
    IN  <<top \div 65536, top % 65536>> \o SubSeq(L, 3, Len(L))

BidNonCanonical(F, L) == LimbsGreater(BidRawCoeff(F, L), F.maxCoeff)

BidCoeff(F, L) ==
    IF BidNonCanonical(F, L) THEN ZeroLimbs(F.limbs) ELSE BidRawCoeff(F, L)

\* -1, 0 or 1: the order of limb sequences of one length
LimbsCmp(A, B) ==
    IF A = B THEN 0 ELSE IF LimbsGreater(A, B) THEN 1 ELSE -1

\* the limbs 1..i of A times ten plus carry, without the carry out
RECURSIVE LimbsTimes10(_, _, _)
LimbsTimes10(A, i, carry) ==
    IF i = 0 THEN <<>>
    ELSE LET cur == A[i] * 10 + carry
         IN  Append(LimbsTimes10(A, i - 1, cur \div 65536), cur % 65536)

\* A * 10^d, for limbs wide enough to hold it
RECURSIVE LimbsScale(_, _)
LimbsScale(A, d) ==
    IF d = 0 THEN A
    ELSE LET A10 == LimbsTimes10(A, Len(A), 0)
         IN  IF Len(A10) = Len(A) THEN LimbsScale(A10, d - 1) ELSE A10

\* -1, 0 or 1: the order of cx * 10^ex and cy * 10^ey for nonzero
\* coefficients below 10^prec
BidMagCompare(F, cx, ex, cy, ey) ==
    LET wide(c) == ZeroLimbs(F.limbs) \o c
    IN  IF ex = ey THEN LimbsCmp(cx, cy)
        ELSE IF ex > ey THEN
            IF ex - ey >= F.prec THEN 1
            ELSE LimbsCmp(LimbsScale(wide(cx), ex - ey), wide(cy))
        ELSE
            IF ey - ex >= F.prec THEN -1
            ELSE LimbsCmp(wide(cx), LimbsScale(wide(cy), ey - ex))

\* -1, 0 or 1: the order of the values of two patterns that are not NaN
BidCompare(F, X, Y) ==
    LET cx == BidCoeff(F, X)
        cy == BidCoeff(F, Y)
        zero == ZeroLimbs(F.limbs)
        gx == IF ~BidIsInf(X) /\ cx = zero THEN 0 ELSE 1 - 2 * BidSign(X)
        gy == IF ~BidIsInf(Y) /\ cy = zero THEN 0 ELSE 1 - 2 * BidSign(Y)
        mag == IF BidIsInf(X) THEN (IF BidIsInf(Y) THEN 0 ELSE 1)
               ELSE IF BidIsInf(Y) THEN -1
               ELSE BidMagCompare(F, cx, BidExp(F, X), cy, BidExp(F, Y))
    IN  IF gx # gy THEN (IF gx < gy THEN -1 ELSE 1)
        ELSE IF gx = 0 THEN 0
        ELSE gx * mag

BidUnordered(F, p, q) == BidIsNaN(BidLimbs(F, p)) \/ BidIsNaN(BidLimbs(F, q))

BidOrder(F, p, q) == BidCompare(F, BidLimbs(F, p), BidLimbs(F, q))

bid_quiet_equal(F, p, q) ==
    CBool(~BidUnordered(F, p, q) /\ BidOrder(F, p, q) = 0)

bid_quiet_not_equal(F, p, q) ==
    CBool(BidUnordered(F, p, q) \/ BidOrder(F, p, q) # 0)

bid_quiet_less(F, p, q) ==
    CBool(~BidUnordered(F, p, q) /\ BidOrder(F, p, q) < 0)

bid_quiet_less_equal(F, p, q) ==
    CBool(~BidUnordered(F, p, q) /\ BidOrder(F, p, q) <= 0)

bid_quiet_greater(F, p, q) ==
    CBool(~BidUnordered(F, p, q) /\ BidOrder(F, p, q) > 0)

bid_quiet_greater_equal(F, p, q) ==
    CBool(~BidUnordered(F, p, q) /\ BidOrder(F, p, q) >= 0)

bid_isNaN(F, p) == CBool(BidIsNaN(BidLimbs(F, p)))

bid_isInf(F, p) == CBool(BidIsInf(BidLimbs(F, p)))

bid_isSigned(F, p) == BidSign(BidLimbs(F, p))

\* quiet NaN with the payload the tag denotes; the empty tag denotes zero
bid_nan(F) == BidValue(F, <<31744>> \o ZeroLimbs(F.limbs - 1))

bid_inf(F) == BidValue(F, <<30720>> \o ZeroLimbs(F.limbs - 1))

bid_negate(F, p) ==
    LET L == BidLimbs(F, p)
    IN  BidValue(F, [L EXCEPT ![1] = (@ + 32768) % 65536])

\* the canonical pattern of the same value: a NaN keeps its sign, its
\* signaling bit and a payload within 10^(prec-1) - 1, an infinity keeps its
\* sign, a finite value with a non-canonical coefficient becomes the zero of
\* the same sign and exponent
BidCanonical(F, L) ==
    LET n == F.limbs
        make(head, rest) ==
            <<BidSign(L) * 32768 + head \div 65536, head % 65536>> \o rest
        ptop == BidHead(L) % Pow2(28 - F.eb)
        payload == <<ptop \div 65536, ptop % 65536>> \o SubSeq(L, 3, n)
        special == (BidHead(L) \div 33554432) * 33554432
    IN  IF BidIsNaN(L) THEN
            IF LimbsGreater(payload, F.maxPayload)
            THEN make(special, ZeroLimbs(n - 2))
            ELSE make(special + ptop, SubSeq(L, 3, n))
        ELSE IF BidIsInf(L) THEN make(2013265920, ZeroLimbs(n - 2))
        ELSE IF BidNonCanonical(F, L)
        THEN make(BidExp(F, L) * Pow2(31 - F.eb), ZeroLimbs(n - 2))
        ELSE L

\* the NaN with the signaling bit cleared
BidQuiet(L) == [L EXCEPT ![1] = @ - 512 * Bit(@, 9)]

\* minNum and maxNum of IEEE 754-2008 on canonicalized operands: a quiet NaN
\* loses to a number; a signaling NaN and a number give that NaN quieted; two
\* NaNs give the first one, quieted; of two equal values either may be
\* returned.  The set of admissible results; less is -1 for minNum and 1 for
\* maxNum.
BidMinMax(F, p, q, less) ==
    LET X == BidCanonical(F, BidLimbs(F, p))
        Y == BidCanonical(F, BidLimbs(F, q))
        c == BidCompare(F, X, Y)
        res == IF BidIsNaN(X) THEN
                   IF BidIsSNaN(X) THEN {BidQuiet(X)}
                   ELSE IF BidIsNaN(Y) THEN {X} ELSE {Y}
               ELSE IF BidIsNaN(Y) THEN
                   IF BidIsSNaN(Y) THEN {BidQuiet(Y)} ELSE {X}
               ELSE IF c = 0 THEN {X, Y}
               ELSE IF c = less THEN {X} ELSE {Y}
    IN  {BidValue(F, L) : L \in res}

bid_minnum(F, p, q) == BidMinMax(F, p, q, -1)

bid_maxnum(F, p, q) == BidMinMax(F, p, q, 1)

----------------------------------------------------------------------------
(* Conversions between the decimal formats (bidN_to_bidM).  A result of     *)
(* the library is the record [v, f]: the value returned and the status      *)
(* flags the call raises.  The rounding mode is the library's default,      *)
(* round to nearest even: no operation of the runtime changes it.           *)

BidBias(F) == IF F.limbs = 2 THEN 101 ELSE IF F.limbs = 4 THEN 398 ELSE 6176

\* the largest biased exponent of a finite value
BidMaxExp(F) == 3 * Pow2(F.eb - 2) - 1

\* the limbs 1..i of A divided by ten: quotient limbs and remainder
RECURSIVE LimbsDivTen(_, _)
LimbsDivTen(A, i) ==
    IF i = 0 THEN [q |-> <<>>, rem |-> 0]
    ELSE LET p == LimbsDivTen(A, i - 1)
             cur == p.rem * 65536 + A[i]
         IN  [q |-> Append(p.q, cur \div 10), rem |-> cur % 10]

\* A + 1, the carry entering at limb i
RECURSIVE LimbsInc(_, _)
LimbsInc(A, i) ==
    IF i = 0 THEN A
    ELSE IF A[i] = 65535 THEN LimbsInc([A EXCEPT ![i] = 0], i - 1)
    ELSE [A EXCEPT ![i] = @ + 1]

\* A on n limbs (leading zero limbs added), and the last n limbs of A
LimbsExtend(A, n) == ZeroLimbs(n - Len(A)) \o A

LimbsLow(A, n) == SubSeq(A, Len(A) - n + 1, Len(A))

\* the pattern of format F with the given sign, coefficient limbs (at most
\* 10^prec - 1, on F.limbs limbs) and biased exponent
BidEncode(F, sign, c, e) ==
    LET topc == c[1] * 65536 + c[2]
        head == IF topc < Pow2(31 - F.eb)
                THEN e * Pow2(31 - F.eb) + topc
                ELSE 1610612736 + e * Pow2(29 - F.eb)
                         + (topc - Pow2(31 - F.eb))
    IN  <<sign * 32768 + head \div 65536, head % 65536>>
            \o SubSeq(c, 3, F.limbs)

\* Digits are dropped from the coefficient st.c, the exponent st.e rising,
\* until the coefficient fits the precision of F and the exponent is not
\* below the smallest one.  st.rd is the digit dropped last, st.sticky says
\* that a nonzero digit was dropped before it, st.tiny that a digit was
\* dropped only because the exponent was too small.
RECURSIVE BidDropDigits(_, _)
BidDropDigits(F, st) ==
    LET n == Len(st.c)
        wide == LimbsGreater(st.c, LimbsExtend(F.maxCoeff, n))
    IN  IF ~wide /\ st.e >= 0 THEN st
        ELSE IF st.c = ZeroLimbs(n)
        THEN [st EXCEPT !.e = 0, !.rd = 0,
                        !.sticky = st.sticky \/ st.rd # 0, !.tiny = TRUE]
        ELSE LET d == LimbsDivTen(st.c, n)
             IN  BidDropDigits(F, [c |-> d.q, e |-> st.e + 1, rd |-> d.rem,
                                   sticky |-> st.sticky \/ st.rd # 0,
                                   tiny |-> st.tiny \/ ~wide])

\* the coefficient is multiplied by ten, the exponent falling, while the
\* exponent is above the largest one and the coefficient keeps fitting
RECURSIVE BidFoldDown(_, _, _)
BidFoldDown(F, c, e) ==
    LET c10 == LimbsTimes10(c, Len(c), 0)
    IN  IF e > BidMaxExp(F) /\ ~LimbsGreater(c10, F.maxCoeff)
        THEN BidFoldDown(F, c10, e - 1)
        ELSE [c |-> c, e |-> e]

\* The finite value (-1)^sign * c * 10^(e - bias of F), c on any number of
\* limbs and e any integer, rounded to the format F (nearest, ties to even).
BidRound(F, sign, c, e) ==
    LET st == BidDropDigits(F, [c |-> c, e |-> e, rd |-> 0,
                                sticky |-> FALSE, tiny |-> FALSE])
        kept == LimbsLow(st.c, F.limbs)
        inexact == st.rd # 0 \/ st.sticky
        up == st.rd > 5 \/ (st.rd = 5 /\ (st.sticky \/ kept[F.limbs] % 2 = 1))
        inc == IF up THEN LimbsInc(kept, F.limbs) ELSE kept
        carry == LimbsGreater(inc, F.maxCoeff)
        rc == IF carry THEN LimbsInc(F.maxPayload, F.limbs) ELSE inc
        re == IF carry THEN st.e + 1 ELSE st.e
        zero == rc = ZeroLimbs(F.limbs)
        fold == BidFoldDown(F, rc, re)
        fl == (IF inexact THEN {"inexact"} ELSE {})
                \cup (IF inexact /\ st.tiny THEN {"underflow"} ELSE {})
    IN  IF zero
        THEN [v |-> BidEncode(F, sign, rc,
                              IF re > BidMaxExp(F) THEN BidMaxExp(F) ELSE re),
              f |-> fl]
        ELSE IF fold.e > BidMaxExp(F)
        THEN [v |-> <<sign * 32768 + 30720>> \o ZeroLimbs(F.limbs - 1),
              f |-> {"overflow", "inexact"}]
        ELSE [v |-> BidEncode(F, sign, fold.c, fold.e), f |-> fl]

\* the quiet NaN of format F with the given sign and payload limbs
BidMakeNaN(F, sign, payload) ==
    [payload EXCEPT ![1] = @ + sign * 32768 + 31744]

\* the payload limbs of a canonical NaN
BidPayload(F, L) ==
    LET ptop == BidHead(L) % Pow2(28 - F.eb)
    IN  <<ptop \div 65536, ptop % 65536>> \o SubSeq(L, 3, F.limbs)

\* bid32_to_bid64, bid32_to_bid128, bid64_to_bid128: the value is kept; a
\* NaN arrives quiet, its payload moved to the leading digits; an infinity
\* and a non-canonical pattern arrive canonical.  S is the format of the
\* operand, D the wider format of the result.
bid_widen(S, D, p) ==
    LET L == BidCanonical(S, BidLimbs(S, p))
        sign == BidSign(L)
        res ==
            IF BidIsNaN(L)
            THEN BidMakeNaN(D, sign,
                     LimbsScale(LimbsExtend(BidPayload(S, L), D.limbs),
                                D.prec - S.prec))
            ELSE IF BidIsInf(L)
            THEN <<sign * 32768 + 30720>> \o ZeroLimbs(D.limbs - 1)
            ELSE BidEncode(D, sign, LimbsExtend(BidCoeff(S, L), D.limbs),
                           BidExp(S, L) - BidBias(S) + BidBias(D))
    IN  [v |-> BidValue(D, res),
         f |-> IF BidIsSNaN(L) THEN {"invalid"} ELSE {}]

\* the limbs of A divided by 10^d
RECURSIVE LimbsUnscale(_, _)
LimbsUnscale(A, d) ==
    IF d = 0 THEN A ELSE LimbsUnscale(LimbsDivTen(A, Len(A)).q, d - 1)

\* The payload a narrowed NaN carries: the leading digits of the operand's
\* payload, so that the payload a widening has moved to the leading digits
\* comes back unchanged.
BidNarrowPayload(S, D, P) ==
    LimbsLow(LimbsUnscale(P, S.prec - D.prec), D.limbs)

\* bid64_to_bid32, bid128_to_bid64, bid128_to_bid32: the set of results the
\* library may return.  A finite value is rounded to the narrower format; a
\* NaN arrives quiet; an infinity arrives canonical.
bid_narrow(S, D, p) ==
    LET L == BidCanonical(S, BidLimbs(S, p))
        sign == BidSign(L)
    IN  IF BidIsNaN(L)
        THEN {[v |-> BidValue(D, BidMakeNaN(D, sign,
                         BidNarrowPayload(S, D, BidPayload(S, BidQuiet(L))))),
               f |-> IF BidIsSNaN(L) THEN {"invalid"} ELSE {}]}
        ELSE IF BidIsInf(L)
        THEN {[v |-> BidValue(D, <<sign * 32768 + 30720>>
                                     \o ZeroLimbs(D.limbs - 1)),
               f |-> {}]}
        ELSE LET rr == BidRound(D, sign, BidCoeff(S, L),
                                BidExp(S, L) - BidBias(S) + BidBias(D))
             IN  {[v |-> BidValue(D, rr.v), f |-> rr.f]}

----------------------------------------------------------------------------
(* Addition (bidN_add): the exact sum rounded to the format, its exponent   *)
(* the smaller of the operands' exponents when the sum fits.                *)

\* A + B and A - B (A >= B) on limbs of one length, without the carry out
RECURSIVE LimbsAdd(_, _, _, _)
LimbsAdd(A, B, i, carry) ==
    IF i = 0 THEN <<>>
    ELSE LET cur == A[i] + B[i] + carry
         IN  Append(LimbsAdd(A, B, i - 1, cur \div 65536), cur % 65536)

RECURSIVE LimbsSub(_, _, _, _)
LimbsSub(A, B, i, borrow) ==
    IF i = 0 THEN <<>>
    ELSE LET cur == A[i] - B[i] - borrow
         IN  Append(LimbsSub(A, B, i - 1, IF cur < 0 THEN 1 ELSE 0),
                    (cur + 65536) % 65536)

\* the coefficient c (within the precision of F) is multiplied by ten at
\* most gap times, while it keeps fitting: the coefficient reached and the
\* number of multiplications left over
RECURSIVE BidScaleUp(_, _, _)
BidScaleUp(F, c, gap) ==
    LET c10 == LimbsTimes10(c, Len(c), 0)
    IN  IF gap > 0 /\ c # ZeroLimbs(Len(c)) /\ ~LimbsGreater(c10, F.maxCoeff)
        THEN BidScaleUp(F, c10, gap - 1)
        ELSE [c |-> c, gap |-> gap]

\* the sum of two finite values of format F: [v, f]
BidAddFinite(F, X, Y) ==
    LET n == F.limbs
        swap == BidExp(F, X) < BidExp(F, Y)
        H == IF swap THEN Y ELSE X
        L == IF swap THEN X ELSE Y
        sh == BidSign(H)
        sl == BidSign(L)
        el == BidExp(F, L)
        cl == LimbsExtend(BidCoeff(F, L), 2 * n)
        up == BidScaleUp(F, BidCoeff(F, H), BidExp(F, H) - el)
        zh == BidCoeff(F, H) = ZeroLimbs(n)
        zl == BidCoeff(F, L) = ZeroLimbs(n)
        far == up.gap > F.prec + 2
        \* the operands on one exponent e: the smaller one is a sticky unit
        \* when it lies more than two digits below the larger one
        e == IF far THEN el + up.gap - 2 ELSE el
        mh == LimbsScale(LimbsExtend(up.c, 2 * n), IF far THEN 2 ELSE up.gap)
        ml == IF far THEN LimbsInc(ZeroLimbs(2 * n), 2 * n) ELSE cl
        big == LimbsCmp(mh, ml)
        sum == IF sh = sl THEN LimbsAdd(mh, ml, 2 * n, 0)
               ELSE IF big >= 0 THEN LimbsSub(mh, ml, 2 * n, 0)
               ELSE LimbsSub(ml, mh, 2 * n, 0)
        sign == IF sh = sl THEN sh
                ELSE IF big > 0 THEN sh
                ELSE IF big < 0 THEN sl
                ELSE 0
    IN  IF zh /\ zl
        THEN [v |-> BidEncode(F, IF sh = sl THEN sh ELSE 0, ZeroLimbs(n), el),
              f |-> {}]
        ELSE IF zh THEN [v |-> BidCanonical(F, L), f |-> {}]
        ELSE IF zl
        THEN [v |-> BidEncode(F, sh, up.c, el + up.gap), f |-> {}]
        ELSE BidRound(F, sign, sum, e)

\* bid32_add, bid64_add, bid128_add: [v, f]
bid_add(F, p, q) ==
    LET X == BidCanonical(F, BidLimbs(F, p))
        Y == BidCanonical(F, BidLimbs(F, q))
        signal == IF BidIsSNaN(X) \/ BidIsSNaN(Y) THEN {"invalid"} ELSE {}
        res ==
            IF BidIsNaN(X) THEN [v |-> BidQuiet(X), f |-> signal]
            ELSE IF BidIsNaN(Y) THEN [v |-> BidQuiet(Y), f |-> signal]
            ELSE IF BidIsInf(X) /\ BidIsInf(Y) /\ BidSign(X) # BidSign(Y)
            THEN [v |-> <<31744>> \o ZeroLimbs(F.limbs - 1), f |-> {"invalid"}]
            ELSE IF BidIsInf(X) THEN [v |-> X, f |-> {}]
            ELSE IF BidIsInf(Y) THEN [v |-> Y, f |-> {}]
            ELSE BidAddFinite(F, X, Y)
    IN  [v |-> BidValue(F, res.v), f |-> res.f]

----------------------------------------------------------------------------
(* Text (bidN_from_string, bidN_to_string).  A C string is the sequence of  *)
(* its characters before the terminating NUL, each a one-character string.  *)

DigitChars == <<"0", "1", "2", "3", "4", "5", "6", "7", "8", "9">>

DigitChar(d) == DigitChars[d + 1]

IsDigit(ch) == \E d \in 0..9 : DigitChar(d) = ch

DigitVal(ch) == CHOOSE d \in 0..9 : DigitChar(d) = ch

AllDigits(t) == \A i \in 1..Len(t) : IsDigit(t[i])

\* the decimal digits of the limbs A, none for zero
RECURSIVE LimbsDigits(_)
LimbsDigits(A) ==
    IF A = ZeroLimbs(Len(A)) THEN <<>>
    ELSE LET d == LimbsDivTen(A, Len(A))
         IN  Append(LimbsDigits(d.q), DigitChar(d.rem))

\* the number acc * 10^k + (the number the digits t spell from position i
\* on, k of them), on the limbs of acc
RECURSIVE DigitsLimbsFrom(_, _, _)
DigitsLimbsFrom(t, i, acc) ==
    IF i > Len(t) THEN acc
    ELSE DigitsLimbsFrom(t, i + 1, LimbsTimes10(acc, Len(acc), DigitVal(t[i])))

\* the limbs (n of them) of the number the digits t spell
DigitsLimbs(t, n) == DigitsLimbsFrom(t, 1, ZeroLimbs(n))

\* the decimal digits of a natural number, "0" for zero
RECURSIVE NatDigits(_)
NatDigits(n) ==
    IF n < 10 THEN <<DigitChar(n)>>
    ELSE Append(NatDigits(n \div 10), DigitChar(n % 10))

\* the number the digits t spell, for a few digits
RECURSIVE DigitsNat(_)
DigitsNat(t) ==
    IF t = <<>> THEN 0
    ELSE DigitsNat(SubSeq(t, 1, Len(t) - 1)) * 10 + DigitVal(t[Len(t)])

\* the position of the first character of t that is in the set cs, or
\* Len(t) + 1
FirstOf(t, cs) ==
    IF \E i \in 1..Len(t) : t[i] \in cs
    THEN CHOOSE i \in 1..Len(t) :
             t[i] \in cs /\ \A j \in 1..(i - 1) : t[j] \notin cs
    ELSE Len(t) + 1

SignChars == {"+", "-"}

\* the text without a leading sign, and the sign it had
Unsigned(t) ==
    IF t # <<>> /\ t[1] \in SignChars THEN SubSeq(t, 2, Len(t)) ELSE t

SignOf(t) == IF t # <<>> /\ t[1] = "-" THEN 1 ELSE 0

\* bidN_to_string: the sign, then the coefficient in decimal digits, "E",
\* the sign of the exponent and the exponent; a special value by its name
bid_to_string(F, p) ==
    LET L == BidLimbs(F, p)
        sign == IF BidSign(L) = 1 THEN <<"-">> ELSE <<"+">>
        digits == LimbsDigits(BidCoeff(F, L))
        e == BidExp(F, L) - BidBias(F)
    IN  IF BidIsSNaN(L) THEN sign \o <<"S", "N", "a", "N">>
        ELSE IF BidIsNaN(L) THEN sign \o <<"N", "a", "N">>
        ELSE IF BidIsInf(L) THEN sign \o <<"I", "n", "f">>
        ELSE sign \o (IF digits = <<>> THEN <<"0">> ELSE digits) \o <<"E">>
                 \o (IF e < 0 THEN <<"-">> ELSE <<"+">>)
                 \o NatDigits(IF e < 0 THEN 0 - e ELSE e)

\* bidN_from_string of a decimal literal: an optional sign, digits with at
\* most one point among them, and an optional exponent part; also the
\* names bidN_to_string writes.  Any other text gives the quiet NaN.  The
\* value is rounded to the format when the literal has too many digits
\* (literals of at most twice the precision are covered): [v, f]
bid_from_string(F, t) ==
    LET body == Unsigned(t)
        sign == SignOf(t)
        epos == FirstOf(body, {"E", "e"})
        mant == SubSeq(body, 1, epos - 1)
        dot == FirstOf(mant, {"."})
        int == SubSeq(mant, 1, dot - 1)
        frac == SubSeq(mant, dot + 1, Len(mant))
        etxt == SubSeq(body, epos + 1, Len(body))
        edig == Unsigned(etxt)
        numeric == /\ AllDigits(int) /\ AllDigits(frac)
                   /\ Len(int) + Len(frac) > 0
                   /\ Len(int) + Len(frac) <= 2 * F.prec
                   /\ (epos <= Len(body) =>
                          edig # <<>> /\ AllDigits(edig) /\ Len(edig) <= 4)
        eval == IF epos > Len(body) THEN 0
                ELSE (1 - 2 * SignOf(etxt)) * DigitsNat(edig)
        special(head) ==
            <<sign * 32768 + head>> \o ZeroLimbs(F.limbs - 1)
        res ==
            IF body = <<"I", "n", "f">> THEN [v |-> special(30720), f |-> {}]
            ELSE IF body = <<"S", "N", "a", "N">>
            THEN [v |-> special(32256), f |-> {}]
            ELSE IF body = <<"N", "a", "N">>
            THEN [v |-> special(31744), f |-> {}]
            ELSE IF ~numeric
            THEN [v |-> <<31744>> \o ZeroLimbs(F.limbs - 1), f |-> {}]
            ELSE BidRound(F, sign, DigitsLimbs(int \o frac, 2 * F.limbs),
                          BidBias(F) + eval - Len(frac))
    IN  [v |-> BidValue(F, res.v), f |-> res.f]

----------------------------------------------------------------------------
(* decimal_functions.c: the operations of the three decimal widths.         *)
(* d128_t is the pair of 64-bit words low, high.                            *)

\* Mutant: the words are exchanged, low to word 1 and high to word 0.
to_bid128_swapped(v) == [i \in 0..1 |-> IF i = 0 THEN v.high ELSE v.low]

to_bid128(v) == [i \in 0..1 |-> IF i = 0 THEN v.low ELSE v.high]

from_bid128(v) == [low |-> v[0], high |-> v[1]]

d32_cmp_swapped(p, q) ==
    IF bid_quiet_less(BID32, p, q) # 0 THEN 1
    ELSE IF bid_quiet_greater(BID32, p, q) # 0 THEN -1
    ELSE 0

d32_cmp(p, q) ==
    IF bid_quiet_less(BID32, p, q) # 0 THEN -1
    ELSE IF bid_quiet_greater(BID32, p, q) # 0 THEN 1
    ELSE 0

d64_cmp(p, q) ==
    IF bid_quiet_less(BID64, p, q) # 0 THEN -1
    ELSE IF bid_quiet_greater(BID64, p, q) # 0 THEN 1
    ELSE 0

d128_cmp(p, q) ==
    LET ba == to_bid128(p)
        bb == to_bid128(q)
    IN  IF bid_quiet_less(BID128, ba, bb) # 0 THEN -1
        ELSE IF bid_quiet_greater(BID128, ba, bb) # 0 THEN 1
        ELSE 0

\* The conversions.  A widening call gives the outcome [v, f]: the value
\* returned and the status flags the library raises; a narrowing call gives
\* the set of the outcomes the library may produce.
d32_to_d64_unsigned(p) ==
    bid_widen(BID32, BID64, [p EXCEPT ![1] = @ % 32768])

d32_to_d64(p) == bid_widen(BID32, BID64, p)

d32_to_d128(p) ==
    LET o == bid_widen(BID32, BID128, p)
    IN  [v |-> from_bid128(o.v), f |-> o.f]

d64_to_d32(p) == bid_narrow(BID64, BID32, p)

d64_to_d128(p) ==
    LET o == bid_widen(BID64, BID128, p)
    IN  [v |-> from_bid128(o.v), f |-> o.f]

d128_to_d32(p) == bid_narrow(BID128, BID32, to_bid128(p))

d128_to_d64(p) == bid_narrow(BID128, BID64, to_bid128(p))

\* d32_from_string and d32_add: the outcome [v, f] of the library call
d32_from_string(t) == bid_from_string(BID32, t)

d32_add(p, q) == bid_add(BID32, p, q)

\* the format of the width wd
DecFormat(wd) == IF wd = 32 THEN BID32 ELSE IF wd = 64 THEN BID64 ELSE BID128

\* the bytes dN_to_string asks malloc for
BufferSize_tight(wd) == 16

BufferSize(wd) == IF wd = 128 THEN 128 ELSE 64

\* the text bidN_to_string writes into the buffer of dN_to_string on the
\* pattern with the limbs L, without the terminating NUL
dN_to_string(wd, L) ==
    bid_to_string(DecFormat(wd), BidValue(DecFormat(wd), L))

\* the set of results the library may return
rf_d32_min(p, q) == bid_minnum(BID32, p, q)

rf_d32_max(p, q) == bid_maxnum(BID32, p, q)

rf_d32_isnan(p) == bid_isNaN(BID32, p)

rf_d32_isinf(p) == bid_isInf(BID32, p)

rf_d32_signbit(p) == bid_isSigned(BID32, p)

\* the set of results the library may return
rf_d64_min(p, q) == bid_minnum(BID64, p, q)

rf_d64_max(p, q) == bid_maxnum(BID64, p, q)

rf_d64_isnan(p) == bid_isNaN(BID64, p)

rf_d64_isinf(p) == bid_isInf(BID64, p)

rf_d64_signbit(p) == bid_isSigned(BID64, p)

\* the set of results the library may return
rf_d128_min(p, q) ==
    {from_bid128(v) : v \in bid_minnum(BID128, to_bid128(p), to_bid128(q))}

rf_d128_max(p, q) ==
    {from_bid128(v) : v \in bid_maxnum(BID128, to_bid128(p), to_bid128(q))}

rf_d128_isnan(p) == bid_isNaN(BID128, to_bid128(p))

rf_d128_isinf(p) == bid_isInf(BID128, to_bid128(p))

rf_d128_signbit(p) == bid_isSigned(BID128, to_bid128(p))

rf_d32_nan_asInf == bid_inf(BID32)

rf_d32_nan == bid_nan(BID32)

rf_d32_inf == bid_inf(BID32)

rf_d32_neg_inf == bid_negate(BID32, bid_inf(BID32))

rf_d64_nan == bid_nan(BID64)

rf_d64_inf == bid_inf(BID64)

rf_d64_neg_inf == bid_negate(BID64, bid_inf(BID64))

rf_d128_nan == from_bid128(bid_nan(BID128))

rf_d128_inf == from_bid128(bid_inf(BID128))

rf_d128_neg_inf == from_bid128(bid_negate(BID128, bid_inf(BID128)))

rf_d32_eq(p, q) == bid_quiet_equal(BID32, p, q)

rf_d32_ne(p, q) == bid_quiet_not_equal(BID32, p, q)

rf_d32_lt(p, q) == bid_quiet_less(BID32, p, q)

rf_d32_le(p, q) == bid_quiet_less_equal(BID32, p, q)

rf_d32_gt(p, q) == bid_quiet_greater(BID32, p, q)

rf_d32_ge(p, q) == bid_quiet_greater_equal(BID32, p, q)

rf_d64_eq(p, q) == bid_quiet_equal(BID64, p, q)

rf_d64_ne(p, q) == bid_quiet_not_equal(BID64, p, q)

rf_d64_lt(p, q) == bid_quiet_less(BID64, p, q)

rf_d64_le(p, q) == bid_quiet_less_equal(BID64, p, q)

rf_d64_gt(p, q) == bid_quiet_greater(BID64, p, q)

rf_d64_ge(p, q) == bid_quiet_greater_equal(BID64, p, q)

rf_d128_eq(p, q) == bid_quiet_equal(BID128, to_bid128(p), to_bid128(q))

rf_d128_ne(p, q) == bid_quiet_not_equal(BID128, to_bid128(p), to_bid128(q))

rf_d128_lt(p, q) == bid_quiet_less(BID128, to_bid128(p), to_bid128(q))

rf_d128_le(p, q) == bid_quiet_less_equal(BID128, to_bid128(p), to_bid128(q))

rf_d128_gt(p, q) == bid_quiet_greater(BID128, to_bid128(p), to_bid128(q))

rf_d128_ge(p, q) == bid_quiet_greater_equal(BID128, to_bid128(p), to_bid128(q))

\* rf_f16_isfinite of an operand the caller chooses
F16IsFinite ==
    /\ op = "none"
    /\ \E h \in F16Samples :
           Classify16("rf_f16_isfinite", h, "caller", rf_f16_isfinite(h))

\* rf_f16_isnormal of an operand the caller chooses
F16IsNormal ==
    /\ op = "none"
    /\ \E h \in F16Samples :
           Classify16("rf_f16_isnormal", h, "caller", rf_f16_isnormal(h))

\* rf_f16_iszero of an operand the caller chooses
F16IsZero ==
    /\ op = "none"
    /\ \E h \in F16Samples :
           Classify16("rf_f16_iszero", h, "caller", rf_f16_iszero(h))

NextF16 ==
    \/ F16Add \/ F16Sub \/ F16Mul \/ F16Div
    \/ F16Eq \/ F16Ne \/ F16Lt \/ F16Le \/ F16Gt \/ F16Ge
    \/ F16Min \/ F16Max
    \/ F16Special \/ F16IsNan \/ F16IsInf \/ F16SignBit
    \/ F16IsFinite \/ F16IsNormal \/ F16IsZero

----------------------------------------------------------------------------
(* Calls of the decimal operations.  The operands the caller chooses: NaNs  *)
(* quiet and signaling, with payloads canonical or not, infinities, zeros   *)
(* of both signs and several exponents, equal values in different           *)
(* representations, the largest coefficient, and non-canonical patterns.    *)

D32Samples ==
    {<<31744, 0>>, <<32256, 0>>, <<31744, 1>>, <<64512, 0>>, <<32256, 5>>,
     <<31759, 65535>>, <<32000, 3>>, <<30720, 0>>, <<63488, 0>>,
     <<30720, 1>>, <<12928, 0>>, <<45696, 0>>, <<0, 0>>, <<46848, 0>>,
     <<12928, 1>>, <<45696, 1>>, <<12800, 10>>, <<12928, 5>>, <<45696, 5>>,
     <<12928, 10>>, <<13056, 1>>, <<27832, 38527>>, <<30712, 38527>>,
     <<0, 1>>, <<27839, 65535>>}

D64Samples ==
    {<<31744, 0, 0, 0>>, <<32256, 0, 0, 0>>, <<31744, 0, 0, 1>>,
     <<64512, 0, 0, 0>>, <<31747, 65535, 65535, 65535>>, <<30720, 0, 0, 0>>,
     <<63488, 0, 0, 0>>, <<30720, 0, 0, 1>>, <<12736, 0, 0, 0>>,
     <<45504, 0, 0, 0>>, <<0, 0, 0, 0>>, <<12736, 0, 0, 1>>,
     <<45504, 0, 0, 1>>, <<12704, 0, 0, 10>>, <<12736, 0, 0, 5>>,
     <<45504, 0, 0, 5>>, <<12768, 0, 0, 1>>, <<27763, 34546, 28608, 65535>>,
     <<30715, 34546, 28608, 65535>>, <<27767, 65535, 65535, 65535>>}

D128Samples ==
    {[low |-> <<0, 0, 0, 0>>,
      high |-> <<31744, 0, 0, 0>>],
     [low |-> <<0, 0, 0, 0>>,
      high |-> <<32256, 0, 0, 0>>],
     [low |-> <<0, 0, 0, 1>>,
      high |-> <<31744, 0, 0, 0>>],
     [low |-> <<65535, 65535, 65535, 65535>>,
      high |-> <<31744, 16383, 65535, 65535>>],
     [low |-> <<0, 0, 0, 0>>,
      high |-> <<30720, 0, 0, 0>>],
     [low |-> <<0, 0, 0, 0>>,
      high |-> <<63488, 0, 0, 0>>],
     [low |-> <<0, 0, 0, 1>>,
      high |-> <<30720, 0, 0, 0>>],
     [low |-> <<0, 0, 0, 0>>,
      high |-> <<12352, 0, 0, 0>>],
     [low |-> <<0, 0, 0, 0>>,
      high |-> <<45120, 0, 0, 0>>],
     [low |-> <<0, 0, 0, 0>>,
      high |-> <<0, 0, 0, 0>>],
     [low |-> <<0, 0, 0, 1>>,
      high |-> <<12352, 0, 0, 0>>],
     [low |-> <<0, 0, 0, 1>>,
      high |-> <<45120, 0, 0, 0>>],
     [low |-> <<0, 0, 0, 10>>,
      high |-> <<12350, 0, 0, 0>>],
     [low |-> <<0, 0, 0, 5>>,
      high |-> <<12352, 0, 0, 0>>],
     [low |-> <<0, 0, 0, 5>>,
      high |-> <<45120, 0, 0, 0>>],
     [low |-> <<0, 0, 0, 1>>,
      high |-> <<12354, 0, 0, 0>>],
     [low |-> <<14221, 36451, 65535, 65535>>,
      high |-> <<12353, 60681, 48813, 34752>>],
     [low |-> <<65535, 65535, 65535, 65535>>,
      high |-> <<27664, 32767, 65535, 65535>>],
     [low |-> <<14221, 36452, 0, 0>>,
      high |-> <<12353, 60681, 48813, 34752>>]}

D32Constructors == {"rf_d32_nan", "rf_d32_inf", "rf_d32_neg_inf"}

D64Constructors == {"rf_d64_nan", "rf_d64_inf", "rf_d64_neg_inf"}

D128Constructors == {"rf_d128_nan", "rf_d128_inf", "rf_d128_neg_inf"}

\* the eight limbs of a d128_t, and the d128_t of eight limbs
Bits128(v) == v.high \o v.low

Struct128(L) == [low |-> SubSeq(L, 5, 8), high |-> SubSeq(L, 1, 4)]

\* the flags a comparison, minNum or maxNum of the library raises: invalid
\* when an operand is a signaling NaN
DecSignal(P, Q) ==
    IF BidIsSNaN(P) \/ BidIsSNaN(Q) THEN {"invalid"} ELSE {}

\* the status flags after the flags f are raised in the cell c
Raise(fl, c, f) == [fl EXCEPT ![c] = @ \cup f]

\* a call of name, of width wd, on the patterns P and Q, returning the
\* integer res
CallDec(wd, name, P, Q, res) ==
    /\ w' = wd
    /\ op' = name
    /\ src' = "caller"
    /\ da' = P
    /\ db' = Q
    /\ r' = res
    /\ glbflags' = Raise(glbflags, 0, DecSignal(P, Q))
    /\ UNCHANGED <<a, b, x, fpu, dr, process>>

\* a call of name, of width wd, on the patterns P and Q, returning the
\* pattern R
CallDecPattern(wd, name, P, Q, R) ==
    /\ w' = wd
    /\ op' = name
    /\ src' = "caller"
    /\ da' = P
    /\ db' = Q
    /\ dr' = R
    /\ glbflags' = Raise(glbflags, 0, DecSignal(P, Q))
    /\ UNCHANGED <<a, b, x, fpu, r, process>>

\* a call of the predicate name on the pattern P, returning res; from is the
\* origin of P
ClassifyDec(wd, name, P, from, res) ==
    /\ w' = wd
    /\ op' = name
    /\ src' = from
    /\ da' = P
    /\ r' = res
    /\ UNCHANGED <<a, b, x, fpu, db, dr, runtime>>

\* rf_d32_eq, rf_d64_eq, rf_d128_eq
DecEq ==
    /\ op = "none"
    /\ \/ \E p \in D32Samples, q \in D32Samples :
              CallDec(32, "rf_d32_eq", p, q, rf_d32_eq(p, q))
       \/ \E p \in D64Samples, q \in D64Samples :
              CallDec(64, "rf_d64_eq", p, q, rf_d64_eq(p, q))
       \/ \E p \in D128Samples, q \in D128Samples :
              CallDec(128, "rf_d128_eq", Bits128(p), Bits128(q),
                      rf_d128_eq(p, q))

\* rf_d32_ne, rf_d64_ne, rf_d128_ne
DecNe ==
    /\ op = "none"
    /\ \/ \E p \in D32Samples, q \in D32Samples :
              CallDec(32, "rf_d32_ne", p, q, rf_d32_ne(p, q))
       \/ \E p \in D64Samples, q \in D64Samples :
              CallDec(64, "rf_d64_ne", p, q, rf_d64_ne(p, q))
       \/ \E p \in D128Samples, q \in D128Samples :
              CallDec(128, "rf_d128_ne", Bits128(p), Bits128(q),
                      rf_d128_ne(p, q))

\* rf_d32_lt, rf_d64_lt, rf_d128_lt
DecLt ==
    /\ op = "none"
    /\ \/ \E p \in D32Samples, q \in D32Samples :
              CallDec(32, "rf_d32_lt", p, q, rf_d32_lt(p, q))
       \/ \E p \in D64Samples, q \in D64Samples :
              CallDec(64, "rf_d64_lt", p, q, rf_d64_lt(p, q))
       \/ \E p \in D128Samples, q \in D128Samples :
              CallDec(128, "rf_d128_lt", Bits128(p), Bits128(q),
                      rf_d128_lt(p, q))

\* rf_d32_le, rf_d64_le, rf_d128_le
DecLe ==
    /\ op = "none"
    /\ \/ \E p \in D32Samples, q \in D32Samples :
              CallDec(32, "rf_d32_le", p, q, rf_d32_le(p, q))
       \/ \E p \in D64Samples, q \in D64Samples :
              CallDec(64, "rf_d64_le", p, q, rf_d64_le(p, q))
       \/ \E p \in D128Samples, q \in D128Samples :
              CallDec(128, "rf_d128_le", Bits128(p), Bits128(q),
                      rf_d128_le(p, q))

\* rf_d32_gt, rf_d64_gt, rf_d128_gt
DecGt ==
    /\ op = "none"
    /\ \/ \E p \in D32Samples, q \in D32Samples :
              CallDec(32, "rf_d32_gt", p, q, rf_d32_gt(p, q))
       \/ \E p \in D64Samples, q \in D64Samples :
              CallDec(64, "rf_d64_gt", p, q, rf_d64_gt(p, q))
       \/ \E p \in D128Samples, q \in D128Samples :
              CallDec(128, "rf_d128_gt", Bits128(p), Bits128(q),
                      rf_d128_gt(p, q))

\* rf_d32_ge, rf_d64_ge, rf_d128_ge
DecGe ==
    /\ op = "none"
    /\ \/ \E p \in D32Samples, q \in D32Samples :
              CallDec(32, "rf_d32_ge", p, q, rf_d32_ge(p, q))
       \/ \E p \in D64Samples, q \in D64Samples :
              CallDec(64, "rf_d64_ge", p, q, rf_d64_ge(p, q))
       \/ \E p \in D128Samples, q \in D128Samples :
              CallDec(128, "rf_d128_ge", Bits128(p), Bits128(q),
                      rf_d128_ge(p, q))

\* d32_cmp, d64_cmp, d128_cmp
DecCmp ==
    /\ op = "none"
    /\ \/ \E p \in D32Samples, q \in D32Samples :
              CallDec(32, "d32_cmp", p, q, d32_cmp(p, q))
       \/ \E p \in D64Samples, q \in D64Samples :
              CallDec(64, "d64_cmp", p, q, d64_cmp(p, q))
       \/ \E p \in D128Samples, q \in D128Samples :
              CallDec(128, "d128_cmp", Bits128(p), Bits128(q),
                      d128_cmp(p, q))

\* rf_d32_min, rf_d64_min, rf_d128_min
DecMin ==
    /\ op = "none"
    /\ \/ \E p \in D32Samples, q \in D32Samples :
              \E v \in rf_d32_min(p, q) :
                  CallDecPattern(32, "rf_d32_min", p, q, v)
       \/ \E p \in D64Samples, q \in D64Samples :
              \E v \in rf_d64_min(p, q) :
                  CallDecPattern(64, "rf_d64_min", p, q, v)
       \/ \E p \in D128Samples, q \in D128Samples :
              \E v \in rf_d128_min(p, q) :
                  CallDecPattern(128, "rf_d128_min", Bits128(p), Bits128(q),
                                 Bits128(v))

\* rf_d32_max, rf_d64_max, rf_d128_max
DecMax ==
    /\ op = "none"
    /\ \/ \E p \in D32Samples, q \in D32Samples :
              \E v \in rf_d32_max(p, q) :
                  CallDecPattern(32, "rf_d32_max", p, q, v)
       \/ \E p \in D64Samples, q \in D64Samples :
              \E v \in rf_d64_max(p, q) :
                  CallDecPattern(64, "rf_d64_max", p, q, v)
       \/ \E p \in D128Samples, q \in D128Samples :
              \E v \in rf_d128_max(p, q) :
                  CallDecPattern(128, "rf_d128_max", Bits128(p), Bits128(q),
                                 Bits128(v))

\* rf_dN_nan(), rf_dN_inf(), rf_dN_neg_inf()
DecSpecial ==
    /\ op = "none"
    /\ \/ w' = 32 /\ op' = "rf_d32_nan" /\ dr' = rf_d32_nan
       \/ w' = 32 /\ op' = "rf_d32_inf" /\ dr' = rf_d32_inf
       \/ w' = 32 /\ op' = "rf_d32_neg_inf" /\ dr' = rf_d32_neg_inf
       \/ w' = 64 /\ op' = "rf_d64_nan" /\ dr' = rf_d64_nan
       \/ w' = 64 /\ op' = "rf_d64_inf" /\ dr' = rf_d64_inf
       \/ w' = 64 /\ op' = "rf_d64_neg_inf" /\ dr' = rf_d64_neg_inf
       \/ w' = 128 /\ op' = "rf_d128_nan" /\ dr' = Bits128(rf_d128_nan)
       \/ w' = 128 /\ op' = "rf_d128_inf" /\ dr' = Bits128(rf_d128_inf)
       \/ w' = 128 /\ op' = "rf_d128_neg_inf" /\ dr' = Bits128(rf_d128_neg_inf)
    /\ src' = "caller"
    /\ UNCHANGED <<a, b, x, fpu, r, da, db, runtime>>

\* rf_dN_isnan of an operand the caller chooses, or of the value a
\* special-value constructor of the same width has just returned
DecIsNan ==
    \/ /\ op = "none"
       /\ \E p \in D32Samples :
              ClassifyDec(32, "rf_d32_isnan", p, "caller", rf_d32_isnan(p))
    \/ /\ op \in D32Constructors
       /\ ClassifyDec(32, "rf_d32_isnan", dr, op, rf_d32_isnan(dr))
    \/ /\ op = "none"
       /\ \E p \in D64Samples :
              ClassifyDec(64, "rf_d64_isnan", p, "caller", rf_d64_isnan(p))
    \/ /\ op \in D64Constructors
       /\ ClassifyDec(64, "rf_d64_isnan", dr, op, rf_d64_isnan(dr))
    \/ /\ op = "none"
       /\ \E p \in D128Samples :
              ClassifyDec(128, "rf_d128_isnan", Bits128(p), "caller", rf_d128_isnan(p))
    \/ /\ op \in D128Constructors
       /\ ClassifyDec(128, "rf_d128_isnan", dr, op, rf_d128_isnan(Struct128(dr)))

\* rf_dN_isinf of an operand the caller chooses, or of the value a
\* special-value constructor of the same width has just returned
DecIsInf ==
    \/ /\ op = "none"
       /\ \E p \in D32Samples :
              ClassifyDec(32, "rf_d32_isinf", p, "caller", rf_d32_isinf(p))
    \/ /\ op \in D32Constructors
       /\ ClassifyDec(32, "rf_d32_isinf", dr, op, rf_d32_isinf(dr))
    \/ /\ op = "none"
       /\ \E p \in D64Samples :
              ClassifyDec(64, "rf_d64_isinf", p, "caller", rf_d64_isinf(p))
    \/ /\ op \in D64Constructors
       /\ ClassifyDec(64, "rf_d64_isinf", dr, op, rf_d64_isinf(dr))
    \/ /\ op = "none"
       /\ \E p \in D128Samples :
              ClassifyDec(128, "rf_d128_isinf", Bits128(p), "caller", rf_d128_isinf(p))
    \/ /\ op \in D128Constructors
       /\ ClassifyDec(128, "rf_d128_isinf", dr, op, rf_d128_isinf(Struct128(dr)))

\* rf_dN_signbit of an operand the caller chooses, or of the value a
\* special-value constructor of the same width has just returned
DecSignBit ==
    \/ /\ op = "none"
       /\ \E p \in D32Samples :
              ClassifyDec(32, "rf_d32_signbit", p, "caller", rf_d32_signbit(p))
    \/ /\ op \in D32Constructors
       /\ ClassifyDec(32, "rf_d32_signbit", dr, op, rf_d32_signbit(dr))
    \/ /\ op = "none"
       /\ \E p \in D64Samples :
              ClassifyDec(64, "rf_d64_signbit", p, "caller", rf_d64_signbit(p))
    \/ /\ op \in D64Constructors
       /\ ClassifyDec(64, "rf_d64_signbit", dr, op, rf_d64_signbit(dr))
    \/ /\ op = "none"
       /\ \E p \in D128Samples :
              ClassifyDec(128, "rf_d128_signbit", Bits128(p), "caller", rf_d128_signbit(p))
    \/ /\ op \in D128Constructors
       /\ ClassifyDec(128, "rf_d128_signbit", dr, op, rf_d128_signbit(Struct128(dr)))

NextDec ==
    \/ DecEq \/ DecNe \/ DecLt \/ DecLe \/ DecGt \/ DecGe \/ DecCmp
    \/ DecMin \/ DecMax
    \/ DecSpecial \/ DecIsNan \/ DecIsInf \/ DecSignBit

NextOps == NextF16 \/ NextDec

\* the platform of the build fixes how the native binary32 operations
\* deliver NaN
InitOps ==
    /\ w = 16
    /\ src = "none"
    /\ a = 0
    /\ b = 0
    /\ x = F32(0, 0, 0)
    /\ op = "none"
    /\ r = 0
    /\ fpu \in FpuChoices
    /\ da = <<>>
    /\ db = <<>>
    /\ dr = <<>>
    /\ RuntimeInit

SpecOps == InitOps /\ [][NextOps]_vars

----------------------------------------------------------------------------
(* Properties of the binary16 operations.                                   *)

\* the patterns with all exponent bits set and a nonzero mantissa
NaNPattern16(h) == (h % 32768) > 31744

InfPattern16(h) == (h % 32768) = 31744

ZeroPattern16(h) == (h % 32768) = 0

F16Called(name) == w = 16 /\ src = "caller" /\ op = name

F16Comparisons ==
    {"rf_f16_eq", "rf_f16_ne", "rf_f16_lt", "rf_f16_le", "rf_f16_gt",
     "rf_f16_ge"}

\* C5: when at least one operand of a binary16 comparison is a NaN pattern,
\* rf_f16_eq, rf_f16_lt, rf_f16_le, rf_f16_gt and rf_f16_ge return 0 and
\* rf_f16_ne returns 1, also when both operands are the same NaN pattern.
C5_NaNUnordered ==
    (/\ w = 16
     /\ src = "caller"
     /\ op \in F16Comparisons
     /\ NaNPattern16(a) \/ NaNPattern16(b))
        => r = (IF op = "rf_f16_ne" THEN 1 ELSE 0)

\* rf_f16_eq on twice the same NaN pattern has returned 0
C5_Witness == F16Called("rf_f16_eq") /\ a = 32256 /\ b = 32256 /\ r = 0

\* C8: the invalid binary16 operations return a NaN pattern: the sum of
\* infinities of opposite signs, the difference of infinities of one sign,
\* zero times infinity, zero over zero and infinity over infinity; a finite
\* nonzero value divided by a zero returns the infinity whose sign is the
\* exclusive or of the operand signs.
C8_InvalidOperations ==
    /\ (F16Called("rf_f16_add") /\ InfPattern16(a) /\ InfPattern16(b)
            /\ SignBits16(a) # SignBits16(b)) => NaNPattern16(r)
    /\ (F16Called("rf_f16_sub") /\ InfPattern16(a) /\ InfPattern16(b)
            /\ SignBits16(a) = SignBits16(b)) => NaNPattern16(r)
    /\ (F16Called("rf_f16_mul")
            /\ \/ ZeroPattern16(a) /\ InfPattern16(b)
               \/ InfPattern16(a) /\ ZeroPattern16(b)) => NaNPattern16(r)
    /\ (F16Called("rf_f16_div")
            /\ \/ ZeroPattern16(a) /\ ZeroPattern16(b)
               \/ InfPattern16(a) /\ InfPattern16(b)) => NaNPattern16(r)
    /\ (F16Called("rf_f16_div") /\ (a % 32768) < 31744 /\ ~ZeroPattern16(a)
            /\ ZeroPattern16(b))
          => r = (IF SignBits16(a) = SignBits16(b) THEN 31744 ELSE 64512)

\* rf_f16_add(inf, neg_inf) has returned a NaN pattern
C8_Witness ==
    F16Called("rf_f16_add") /\ a = 31744 /\ b = 64512 /\ NaNPattern16(r)

\* rf_f16_div(-1.0, +0) has returned negative infinity
C8_WitnessDivZero ==
    F16Called("rf_f16_div") /\ a = 48128 /\ b = 0 /\ r = 64512

----------------------------------------------------------------------------
(* Properties that span the binary16 and the decimal operations.            *)

DecWidths == {32, 64, 128}


\* the five bits after the sign are 11111; the sixth marks a signaling NaN
NaNPatternDec(L) == (L[1] % 32768) \div 1024 = 31

SNaNPatternDec(L) == (L[1] % 32768) \div 512 = 63

QNaNPatternDec(L) == (L[1] % 32768) \div 512 = 62

\* a finite pattern with all coefficient bits zero
ZeroPatternDec(wd, L) ==
    /\ (L[1] % 32768) \div 8192 # 3
    /\ BidRawCoeff(DecFormat(wd), L) = ZeroLimbs(wd \div 16)

\* not a NaN, and the pattern its value has in canonical form
CanonicalNumberDec(wd, L) ==
    /\ ~NaNPatternDec(L)
    /\ \/ (L[1] % 32768) \div 1024 # 30 /\ ~BidNonCanonical(DecFormat(wd), L)
       \/ L = <<BidSign(L) * 32768 + 30720>> \o ZeroLimbs(wd \div 16 - 1)

NanConstructors == {"rf_f16_nan", "rf_d32_nan", "rf_d64_nan", "rf_d128_nan"}

InfConstructors == {"rf_f16_inf", "rf_d32_inf", "rf_d64_inf", "rf_d128_inf"}

NegInfConstructors ==
    {"rf_f16_neg_inf", "rf_d32_neg_inf", "rf_d64_neg_inf", "rf_d128_neg_inf"}

IsNanPredicates ==
    {"rf_f16_isnan", "rf_d32_isnan", "rf_d64_isnan", "rf_d128_isnan"}

IsInfPredicates ==
    {"rf_f16_isinf", "rf_d32_isinf", "rf_d64_isinf", "rf_d128_isinf"}

SignBitPredicates ==
    {"rf_f16_signbit", "rf_d32_signbit", "rf_d64_signbit", "rf_d128_signbit"}

\* C4: for every width, a classification predicate applied to the value a
\* special-value constructor of that width returned gives: isnan true on
\* nan(), isinf true on inf() and neg_inf(), signbit true on neg_inf() and
\* false on inf(), isnan false on inf() and neg_inf(), isinf false on nan().
C4_SpecialValueClosure ==
    /\ (op \in IsNanPredicates /\ src \in NanConstructors) => r = 1
    /\ (op \in IsInfPredicates /\ src \in InfConstructors) => r = 1
    /\ (op \in IsInfPredicates /\ src \in NegInfConstructors) => r = 1
    /\ (op \in SignBitPredicates /\ src \in NegInfConstructors) => r = 1
    /\ (op \in SignBitPredicates /\ src \in InfConstructors) => r = 0
    /\ (op \in IsNanPredicates /\ src \in InfConstructors) => r = 0
    /\ (op \in IsNanPredicates /\ src \in NegInfConstructors) => r = 0
    /\ (op \in IsInfPredicates /\ src \in NanConstructors) => r = 0

\* rf_d128_signbit has returned 1 on the value rf_d128_neg_inf() returned
C4_Witness ==
    /\ op = "rf_d128_signbit"
    /\ src = "rf_d128_neg_inf"
    /\ da = <<63488, 0, 0, 0, 0, 0, 0, 0>>
    /\ r = 1

\* rf_f16_isnan has returned 1 on the value rf_f16_nan() returned
C4_WitnessF16 ==
    op = "rf_f16_isnan" /\ src = "rf_f16_nan" /\ a = 32256 /\ r = 1

\* C6: on the binary16 zeros of opposite sign, in either order, rf_f16_eq,
\* rf_f16_le and rf_f16_ge return 1 and rf_f16_ne, rf_f16_lt and rf_f16_gt
\* return 0; for each decimal width rf_dN_eq returns 1 on a positive and a
\* negative zero.
C6_SignedZerosEqual ==
    /\ (/\ w = 16
        /\ src = "caller"
        /\ op \in F16Comparisons
        /\ {a, b} = {0, 32768})
          => r = (IF op \in {"rf_f16_eq", "rf_f16_le", "rf_f16_ge"}
                  THEN 1 ELSE 0)
    /\ (/\ w \in DecWidths
        /\ op \in {"rf_d32_eq", "rf_d64_eq", "rf_d128_eq"}
        /\ ZeroPatternDec(w, da) /\ ZeroPatternDec(w, db)
        /\ BidSign(da) = 0
        /\ BidSign(db) = 1)
          => r = 1

\* rf_d64_eq has returned 1 on +0 and -0
C6_Witness ==
    /\ w = 64
    /\ op = "rf_d64_eq"
    /\ da = <<12736, 0, 0, 0>>
    /\ db = <<45504, 0, 0, 0>>
    /\ r = 1

\* rf_f16_eq has returned 1 on -0 and +0
C6_WitnessF16 == F16Called("rf_f16_eq") /\ a = 32768 /\ b = 0 /\ r = 1

F16MinMax == {"rf_f16_min", "rf_f16_max"}

DecMinMax ==
    {"rf_d32_min", "rf_d32_max", "rf_d64_min", "rf_d64_max", "rf_d128_min",
     "rf_d128_max"}

\* rf_f16_min and rf_f16_max return the operand that is not a NaN, and a NaN
\* only when both operands are NaN
F16NonNaNWins ==
    (w = 16 /\ src = "caller" /\ op \in F16MinMax) =>
        /\ (NaNPattern16(a) /\ ~NaNPattern16(b)) => r = b
        /\ (~NaNPattern16(a) /\ NaNPattern16(b)) => r = a
        /\ NaNPattern16(r) => (NaNPattern16(a) /\ NaNPattern16(b))

\* C7 as stated: for every NaN n and every non-NaN v, min and max of n and v
\* in either order return v bit for bit, for binary16 and for the three
\* decimal widths, and the result is NaN only when both operands are NaN.
C7_NonNaNWins ==
    /\ F16NonNaNWins
    /\ (w \in DecWidths /\ op \in DecMinMax) =>
        /\ (NaNPatternDec(da) /\ ~NaNPatternDec(db)) => dr = db
        /\ (~NaNPatternDec(da) /\ NaNPatternDec(db)) => dr = da
        /\ NaNPatternDec(dr) => (NaNPatternDec(da) /\ NaNPatternDec(db))

\* C7, amended: for binary16 as stated; for the decimal widths a quiet NaN
\* loses to a number v, which is returned in canonical form (v bit for bit
\* when v is canonical), the result is NaN exactly when both operands are
\* NaN or one is a signaling NaN, and a NaN result is a quiet NaN.
C7_QuietNaNLoses ==
    /\ F16NonNaNWins
    /\ (w \in DecWidths /\ op \in DecMinMax) =>
        /\ (QNaNPatternDec(da) /\ ~NaNPatternDec(db)) =>
              /\ dr = BidCanonical(DecFormat(w), db)
              /\ CanonicalNumberDec(w, db) => dr = db
        /\ (~NaNPatternDec(da) /\ QNaNPatternDec(db)) =>
              /\ dr = BidCanonical(DecFormat(w), da)
              /\ CanonicalNumberDec(w, da) => dr = da
        /\ NaNPatternDec(dr) <=>
              \/ NaNPatternDec(da) /\ NaNPatternDec(db)
              \/ SNaNPatternDec(da)
              \/ SNaNPatternDec(db)
        /\ NaNPatternDec(dr) => QNaNPatternDec(dr)

\* rf_d32_min(nan, 5) has returned 5
C7_Witness ==
    /\ w = 32
    /\ op = "rf_d32_min"
    /\ da = <<31744, 0>>
    /\ db = <<12928, 5>>
    /\ dr = <<12928, 5>>

\* rf_f16_max(5.0, NaN) has returned 5.0
C7_WitnessF16 == F16Called("rf_f16_max") /\ a = 17664 /\ b = 32256 /\ r = 17664

\* rf_d32_min(signaling NaN, 5) has returned the quiet NaN
C7_WitnessSignaling ==
    /\ w = 32
    /\ op = "rf_d32_min"
    /\ da = <<32256, 0>>
    /\ db = <<12928, 5>>
    /\ dr = <<31744, 0>>

\* rf_d32_max(5, signaling NaN with the payload 5) has returned a quiet NaN
C7_WitnessSignalingSecond ==
    /\ w = 32
    /\ op = "rf_d32_max"
    /\ da = <<12928, 5>>
    /\ SNaNPatternDec(db)
    /\ db[2] = 5
    /\ QNaNPatternDec(dr)

\* rf_d64_min(quiet NaN, signaling NaN) has returned a quiet NaN
C7_WitnessBothNaN ==
    /\ w = 64
    /\ op = "rf_d64_min"
    /\ QNaNPatternDec(da)
    /\ SNaNPatternDec(db)
    /\ QNaNPatternDec(dr)

DecOrdered ==
    {"rf_d32_lt", "rf_d32_le", "rf_d32_gt", "rf_d32_ge",
     "rf_d64_lt", "rf_d64_le", "rf_d64_gt", "rf_d64_ge",
     "rf_d128_lt", "rf_d128_le", "rf_d128_gt", "rf_d128_ge"}

\* the pattern rf_dN_nan() returns
NanOfWidth(wd) ==
    IF wd = 32 THEN rf_d32_nan
    ELSE IF wd = 64 THEN rf_d64_nan
    ELSE Bits128(rf_d128_nan)

\* C9: for each decimal width, with n the value rf_dN_nan() returns: rf_dN_lt,
\* rf_dN_le, rf_dN_gt and rf_dN_ge return 0 when either operand is n,
\* rf_dN_ne(n, n) returns 1 and rf_dN_eq(n, n) returns 0.
C9_DecimalNaNUnordered ==
    (w \in DecWidths /\ src = "caller") =>
        /\ (op \in DecOrdered /\ (da = NanOfWidth(w) \/ db = NanOfWidth(w)))
              => r = 0
        /\ (/\ op \in {"rf_d32_ne", "rf_d64_ne", "rf_d128_ne"}
            /\ da = NanOfWidth(w)
            /\ db = NanOfWidth(w)) => r = 1
        /\ (/\ op \in {"rf_d32_eq", "rf_d64_eq", "rf_d128_eq"}
            /\ da = NanOfWidth(w)
            /\ db = NanOfWidth(w)) => r = 0

\* rf_d128_ne has returned 1 on twice the value of rf_d128_nan()
C9_Witness ==
    /\ w = 128
    /\ op = "rf_d128_ne"
    /\ da = Bits128(rf_d128_nan)
    /\ db = Bits128(rf_d128_nan)
    /\ r = 1

\* rf_d32_le(1, nan) has returned 0
C9_WitnessOrdered ==
    /\ w = 32
    /\ op = "rf_d32_le"
    /\ da = <<12928, 1>>
    /\ db = rf_d32_nan
    /\ r = 0

\* what a comparison result res owes to the quiet predicates on the same
\* operands and to the result rev on the operands exchanged
CmpLaw(res, less, greater, rev, unordered) ==
    /\ res \in {-1, 0, 1}
    /\ res = -1 <=> less = 1
    /\ res = 1 <=> greater = 1
    /\ res = -rev
    /\ unordered => res = 0

\* C10: d32_cmp, d64_cmp and d128_cmp return -1, 0 or 1: -1 exactly when the
\* quiet less-than predicate holds for the operands, 1 exactly when the quiet
\* greater-than predicate holds; cmp(a, b) = -cmp(b, a); and the result is 0
\* when either operand is NaN.
C10_CmpSign ==
    /\ (w = 32 /\ op = "d32_cmp") =>
          CmpLaw(r, bid_quiet_less(BID32, da, db),
                 bid_quiet_greater(BID32, da, db), d32_cmp(db, da),
                 NaNPatternDec(da) \/ NaNPatternDec(db))
    /\ (w = 64 /\ op = "d64_cmp") =>
          CmpLaw(r, bid_quiet_less(BID64, da, db),
                 bid_quiet_greater(BID64, da, db), d64_cmp(db, da),
                 NaNPatternDec(da) \/ NaNPatternDec(db))
    /\ (w = 128 /\ op = "d128_cmp") =>
          CmpLaw(r,
                 bid_quiet_less(BID128, to_bid128(Struct128(da)),
                                to_bid128(Struct128(db))),
                 bid_quiet_greater(BID128, to_bid128(Struct128(da)),
                                   to_bid128(Struct128(db))),
                 d128_cmp(Struct128(db), Struct128(da)),
                 NaNPatternDec(da) \/ NaNPatternDec(db))

\* d32_cmp(nan, 1) has returned 0 although rf_d32_eq(nan, 1) is 0
C10_Witness ==
    /\ w = 32
    /\ op = "d32_cmp"
    /\ da = <<31744, 0>>
    /\ db = <<12928, 1>>
    /\ r = 0
    /\ rf_d32_eq(da, db) = 0

\* d64_cmp(-5, 1) has returned -1
C10_WitnessLess ==
    /\ w = 64
    /\ op = "d64_cmp"
    /\ da = <<45504, 0, 0, 5>>
    /\ db = <<12736, 0, 0, 1>>
    /\ r = -1


----------------------------------------------------------------------------
(* The decimal-library build, one thread calling: the conversions between   *)
(* the widths, the text conversions, addition, and the buffers that         *)
(* dN_to_string allocates.                                                  *)

\* values a narrowing has to round, and values beyond the narrower range
NarrowSamples64 ==
    {<<12740, 25301, 15498, 47808>>, <<61171, 34546, 20979, 39680>>,
     <<19136, 0, 0, 1>>, <<6336, 0, 0, 1>>, <<12704, 0, 0, 15>>,
     <<9216, 0, 188, 24907>>, <<15616, 0, 15, 16960>>}

NarrowSamples128 ==
    {<<12352, 0, 0, 0, 43, 56404, 23915, 19333>>,
     <<13152, 0, 0, 0, 0, 0, 0, 1>>,
     <<45121, 60681, 48813, 34752, 14221, 36451, 65535, 65535>>,
     <<0, 0, 0, 0, 0, 0, 0, 1>>, <<12350, 0, 0, 0, 0, 0, 0, 15>>,
     <<13090, 0, 0, 0, 35, 34546, 28608, 65535>>}

\* an outcome of 128 bits with the value as limbs, most significant first
Flat128(o) == [v |-> Bits128(o.v), f |-> o.f]

\* d32_to_d64, d32_to_d128 or d64_to_d128 on p; o is the outcome
Widened(wd, name, p, o) ==
    /\ w' = wd
    /\ op' = name
    /\ src' = "caller"
    /\ da' = p
    /\ dr' = o.v
    /\ glbflags' = Raise(glbflags, 0, o.f)
    /\ UNCHANGED <<a, b, x, fpu, r, db, process>>

\* quiet NaNs with the payloads 7 and 999999, the largest one
WidenSamples32 == {<<31744, 7>>, <<64527, 16959>>}

\* dr = the widening of a pattern the caller chooses
ConvWiden ==
    /\ op = "none"
    /\ proc = "running"
    /\ \/ \E p \in D32Samples \cup WidenSamples32 :
              Widened(32, "d32_to_d64", p, d32_to_d64(p))
       \/ \E p \in D32Samples : Widened(32, "d32_to_d128", p, Flat128(d32_to_d128(p)))
       \/ \E p \in D64Samples : Widened(64, "d64_to_d128", p, Flat128(d64_to_d128(p)))

\* the narrowing name applied to the value the widening has returned: db
\* keeps the wide value, dr is the value that comes back
NarrowedBack(name, outs) ==
    /\ \E o \in outs :
        /\ dr' = o.v
        /\ glbflags' = Raise(glbflags, 0, o.f)
    /\ db' = dr
    /\ op' = name
    /\ src' = op
    /\ UNCHANGED <<w, a, b, x, fpu, r, da, process>>

ConvNarrowBack ==
    /\ src = "caller"
    /\ proc = "running"
    /\ \/ op = "d32_to_d64" /\ NarrowedBack("d64_to_d32", d64_to_d32(dr))
       \/ op = "d32_to_d128"
            /\ NarrowedBack("d128_to_d32", d128_to_d32(Struct128(dr)))
       \/ op = "d64_to_d128"
            /\ NarrowedBack("d128_to_d64", d128_to_d64(Struct128(dr)))

\* d64_to_d32, d128_to_d32 or d128_to_d64 on a pattern the caller chooses
Narrowed(wd, name, p, outs) ==
    /\ \E o \in outs :
        /\ dr' = o.v
        /\ glbflags' = Raise(glbflags, 0, o.f)
    /\ w' = wd
    /\ op' = name
    /\ src' = "caller"
    /\ da' = p
    /\ UNCHANGED <<a, b, x, fpu, r, db, process>>

ConvNarrow ==
    /\ op = "none"
    /\ proc = "running"
    /\ \/ \E p \in D64Samples \cup NarrowSamples64 :
              Narrowed(64, "d64_to_d32", p, d64_to_d32(p))
       \/ \E p \in NarrowSamples128 :
              Narrowed(128, "d128_to_d32", p, d128_to_d32(Struct128(p)))
       \/ \E p \in NarrowSamples128 :
              Narrowed(128, "d128_to_d64", p, d128_to_d64(Struct128(p)))

\* r = d64_cmp(d32_to_d64(p), d32_to_d64(q)), or the same one width up, for
\* patterns p and q the caller chooses
ConvCompare ==
    /\ op = "none"
    /\ proc = "running"
    /\ \/ \E p \in D32Samples, q \in D32Samples :
            LET P == d32_to_d64(p)
                Q == d32_to_d64(q)
            IN  /\ w' = 32
                /\ op' = "d64_cmp"
                /\ da' = p
                /\ db' = q
                /\ r' = d64_cmp(P.v, Q.v)
                /\ glbflags' =
                       Raise(glbflags, 0, P.f \cup Q.f \cup DecSignal(P.v, Q.v))
       \/ \E p \in D64Samples, q \in D64Samples :
            LET P == d64_to_d128(p)
                Q == d64_to_d128(q)
            IN  /\ w' = 64
                /\ op' = "d128_cmp"
                /\ da' = p
                /\ db' = q
                /\ r' = d128_cmp(P.v, Q.v)
                /\ glbflags' =
                       Raise(glbflags, 0, P.f \cup Q.f
                                 \cup DecSignal(Bits128(P.v), Bits128(Q.v)))
    /\ src' = "widened"
    /\ UNCHANGED <<a, b, x, fpu, dr, process>>

\* decimal literals, a text that is no number, and the empty text
Literals ==
    {<<"1", ".", "5">>, <<"2", ".", "2", "5">>, <<"-", "1", ".", "5">>,
     <<"0", ".", "1">>, <<"9", "9", "9", "9", "9", "9", "9">>,
     <<"0", ".", "5">>, <<"1", "E", "9", "6">>, <<"a", "b", "c">>, <<>>}

\* da = d32_from_string(sa) for a text the caller chooses
FromStringFirst ==
    /\ op = "none"
    /\ proc = "running"
    /\ \E t \in Literals :
        /\ sa' = t
        /\ da' = d32_from_string(t).v
        /\ glbflags' = Raise(glbflags, 0, d32_from_string(t).f)
    /\ w' = 32
    /\ op' = "d32_from_string"
    /\ src' = "first"
    /\ UNCHANGED <<a, b, x, fpu, r, db, dr, heap, proc, sb, thr, tls,
                   tracking, overflow, y>>

\* db = d32_from_string(sb) for a second text
FromStringSecond ==
    /\ op = "d32_from_string"
    /\ src = "first"
    /\ proc = "running"
    /\ \E t \in Literals :
        /\ sb' = t
        /\ db' = d32_from_string(t).v
        /\ glbflags' = Raise(glbflags, 0, d32_from_string(t).f)
    /\ src' = "second"
    /\ UNCHANGED <<w, a, b, x, fpu, op, r, da, dr, heap, proc, sa, thr, tls,
                   tracking, overflow, y>>

\* dr = d32_add(da, db) on the two parsed values
AddParsed ==
    /\ op = "d32_from_string"
    /\ src = "second"
    /\ proc = "running"
    /\ dr' = d32_add(da, db).v
    /\ glbflags' = Raise(glbflags, 0, d32_add(da, db).f)
    /\ op' = "d32_add"
    /\ UNCHANGED <<w, src, a, b, x, fpu, r, da, db, process>>

\* the patterns whose text the caller asks for: the longest texts of the
\* three widths, special values, zero, 3.75
TextSamples ==
    {[wd |-> 32, L |-> <<57368, 38527>>],
     [wd |-> 32, L |-> <<32256, 0>>],
     [wd |-> 32, L |-> <<12672, 375>>],
     [wd |-> 32, L |-> <<0, 0>>],
     [wd |-> 64, L |-> <<57347, 34546, 28608, 65535>>],
     [wd |-> 64, L |-> <<63488, 0, 0, 0>>],
     [wd |-> 64, L |-> <<12672, 0, 0, 375>>],
     [wd |-> 128,
      L |-> <<32769, 60681, 48813, 34752, 14221, 36451, 65535, 65535>>],
     [wd |-> 128, L |-> <<65024, 0, 0, 0, 0, 0, 0, 0>>],
     [wd |-> 128, L |-> <<12352, 0, 0, 0, 0, 0, 0, 1>>]}

\* the addresses malloc can return; 0 is the null pointer
Addresses == 1..3

LiveIds == {blk.id : blk \in heap}

ToStringName(wd) ==
    IF wd = 32 THEN "d32_to_string"
    ELSE IF wd = 64 THEN "d64_to_string" ELSE "d128_to_string"

ToStringOps == {"d32_to_string", "d64_to_string", "d128_to_string"}

\* dN_to_string on the pattern L of width wd: malloc returns a block that
\* overlaps no live block, or the null pointer; the result of malloc is not
\* tested, the library writes the text through it and the pointer is
\* returned.  A write through the null pointer ends the process.
ToStringCall(wd, L, from) ==
    /\ w' = wd
    /\ op' = ToStringName(wd)
    /\ src' = from
    /\ da' = L
    /\ \/ \E id \in Addresses \ LiveIds :
            /\ heap' = heap \cup {[id |-> id, size |-> BufferSize(wd),
                                   text |-> dN_to_string(wd, L)]}
            /\ r' = id
            /\ proc' = proc
       \/ /\ heap' = heap
          /\ r' = 0
          /\ proc' = "terminated"
    /\ UNCHANGED <<a, b, x, fpu, db, dr, glbflags, sa, sb, thr, tls,
                   tracking, overflow, y>>

\* d32_to_string, d64_to_string or d128_to_string on a pattern the caller
\* chooses, or d32_to_string on the sum d32_add has returned
DecToString ==
    /\ proc = "running"
    /\ \/ /\ op = "none" \/ (op \in ToStringOps \cup {"free"} /\ src = "caller")
          /\ \E smp \in TextSamples : ToStringCall(smp.wd, smp.L, "caller")
       \/ /\ op = "d32_add"
          /\ ToStringCall(32, dr, "d32_add")

\* the caller frees a buffer that a dN_to_string call has returned
Free ==
    /\ proc = "running"
    /\ op \in ToStringOps \cup {"free"}
    /\ \E blk \in heap :
        /\ heap' = heap \ {blk}
        /\ r' = blk.id
    /\ op' = "free"
    /\ UNCHANGED <<w, src, a, b, x, fpu, da, db, dr, glbflags, proc, sa, sb,
                   thr, tls,
                   tracking, overflow, y>>

NextLib ==
    \/ ConvWiden \/ ConvNarrowBack \/ ConvNarrow \/ ConvCompare
    \/ FromStringFirst \/ FromStringSecond \/ AddParsed
    \/ DecToString \/ Free

SpecLib == Init /\ [][NextLib]_vars

----------------------------------------------------------------------------
(* Claims on the conversions between the decimal widths.                    *)

\* the state after dM_cmp(dN_to_dM(da), dN_to_dM(db))
WidenedCompared == src = "widened" /\ op \in {"d64_cmp", "d128_cmp"}

\* the comparison of the operands in their own width
NarrowCmp == IF w = 32 THEN d32_cmp(da, db) ELSE d64_cmp(da, db)

\* the state after dM_to_dN(dN_to_dM(da)) through the next wider format
WentAndCameBack ==
    \/ w = 32 /\ op = "d64_to_d32" /\ src = "d32_to_d64"
    \/ w = 64 /\ op = "d128_to_d64" /\ src = "d64_to_d128"

\* the pattern is the canonical encoding of a finite value, of an infinity
\* or of a quiet NaN
PlainEncoding(wd, L) ==
    /\ BidCanonical(DecFormat(wd), L) = L
    /\ ~SNaNPatternDec(L)

\* the canonical encoding of the value of the pattern, quiet when it is a NaN
QuietCanonical(wd, L) ==
    LET C == BidCanonical(DecFormat(wd), L)
    IN  IF NaNPatternDec(C) THEN BidQuiet(C) ELSE C

\* C11 as stated: widening preserves the order, d64_cmp(d32_to_d64(x),
\* d32_to_d64(y)) = d32_cmp(x, y), and every bit pattern x comes back from
\* d64_to_d32(d32_to_d64(x)); likewise for d64 through d128.
C11_WidenExact ==
    /\ WidenedCompared => r = NarrowCmp
    /\ WentAndCameBack => dr = da

\* C11: widening preserves the order for all patterns, and x comes back as
\* the same bit pattern from the narrowing of its widening when x is the
\* canonical encoding of a finite value, of an infinity or of a quiet NaN; a
\* signaling NaN comes back as the quiet NaN of the same sign and payload,
\* and a non-canonical encoding comes back as the canonical encoding of the
\* same value, quiet when it is a NaN.
C11_WidenExactCanonical ==
    /\ WidenedCompared => r = NarrowCmp
    /\ WentAndCameBack =>
          /\ PlainEncoding(w, da) => dr = da
          /\ SNaNPatternDec(da) =>
                /\ QNaNPatternDec(dr)
                /\ BidSign(dr) = BidSign(da)
                /\ dr = BidQuiet(BidCanonical(DecFormat(w), da))
          /\ BidCanonical(DecFormat(w), da) # da => dr = QuietCanonical(w, da)

\* the largest finite d32 value went to d64 and came back
C11_Witness ==
    /\ WentAndCameBack
    /\ da = <<30712, 38527>>
    /\ db = <<15616, 0, 152, 38527>>
    /\ dr = da

\* -1 and 1 were compared after widening to d64
C11_WitnessCompared ==
    /\ WidenedCompared /\ w = 32
    /\ da = <<45696, 1>> /\ db = <<12928, 1>> /\ r = -1

\* the signaling NaN came back quiet
C11_WitnessSignaling ==
    /\ WentAndCameBack
    /\ da = <<32256, 0>> /\ dr = <<31744, 0>>

\* the signaling NaN with the payload 5 came back quiet with the payload 5
C11_WitnessSignalingPayload ==
    /\ WentAndCameBack
    /\ da = <<32256, 5>> /\ dr = <<31744, 5>>

\* the negative quiet NaN with the largest payload came back unchanged
C11_WitnessPayload ==
    /\ WentAndCameBack
    /\ da = <<64527, 16959>> /\ dr = da

\* the infinity with a stray bit came back as the canonical infinity
C11_WitnessStrayBit ==
    /\ WentAndCameBack
    /\ da = <<30720, 1>> /\ dr = <<30720, 0>>

\* the NaN with an out-of-range payload came back with a zero payload
C11_WitnessOutOfRange ==
    /\ WentAndCameBack
    /\ da = <<31759, 65535>> /\ dr = <<31744, 0>>

\* the d64 pattern with a coefficient above the largest one came back as the
\* zero of the same exponent
C11_WitnessNonCanonical ==
    /\ WentAndCameBack /\ w = 64
    /\ BidNonCanonical(BID64, da)
    /\ dr = BidCanonical(BID64, da) /\ dr # da

----------------------------------------------------------------------------
(* Claims on the text conversions and their buffers.                        *)

\* the text in the live block at the address id
TextAt(id) == (CHOOSE blk \in heap : blk.id = id).text

\* the state after d32_to_string(d32_add(d32_from_string("1.5"),
\* d32_from_string("2.25"))) has returned
ScenarioPrinted ==
    /\ op = "d32_to_string" /\ src = "d32_add" /\ proc = "running"
    /\ sa = <<"1", ".", "5">>
    /\ sb = <<"2", ".", "2", "5">>

\* C12: in the decimal-library build d32_to_string(d32_add(
\* d32_from_string("1.5"), d32_from_string("2.25"))) yields the text "3.75".
C12_ScenarioText ==
    ScenarioPrinted => TextAt(r) = <<"3", ".", "7", "5">>

\* the sum is the decimal 375E-2, and the text the library writes for it
\* is "+375E-2"
C12_ScenarioValue ==
    ScenarioPrinted =>
        /\ dr = <<12672, 375>>
        /\ TextAt(r) = <<"+", "3", "7", "5", "E", "-", "2">>

C12_Witness ==
    /\ ScenarioPrinted
    /\ da = <<12672, 375>>
    /\ TextAt(r) = <<"+", "3", "7", "5", "E", "-", "2">>

\* C15: a dN_to_string call that returns hands back a block that was not
\* live before the call, of the size the width asks for (64, 64, 128), with
\* the text and its terminating NUL inside; the blocks returned earlier and
\* not freed are left as they were, by this call and by every step that is
\* not the caller's free.
C15_FreshBuffers ==
    [][/\ (op' \in ToStringOps /\ proc' = "running") =>
            /\ r' \notin LiveIds
            /\ \E blk \in heap' :
                /\ blk.id = r'
                /\ blk.size = (IF w' = 128 THEN 128 ELSE 64)
                /\ Len(blk.text) + 1 <= blk.size
                /\ heap' = heap \cup {blk}
       /\ op' # "free" => heap \subseteq heap']_vars

\* the longest text of d128, 41 characters, was returned while two earlier
\* buffers were still live
C15_Witness ==
    /\ op = "d128_to_string" /\ proc = "running"
    /\ Cardinality(heap) = 3
    /\ Len(TextAt(r)) = 41
    /\ \E blk \in heap : blk.id # r /\ blk.size = 64

\* malloc returned the null pointer and the write through it ended the
\* process
C15_WitnessNoMemory == op \in ToStringOps /\ proc = "terminated" /\ r = 0

----------------------------------------------------------------------------
(* math_wrapper.c without HAVE_LIBDFP: the placeholder decimal functions,   *)
(* which take the patterns as unsigned integers.                            *)

\* bit i of the limbs A, bit 1 the most significant
LimbsBit(A, i) == Bit(A[((i - 1) \div 16) + 1], 15 - ((i - 1) % 16))

\* Unsigned division of the limbs A by the nonzero limbs B of the same
\* length, bit by bit from the most significant bit i on: [q, rem], the
\* remainder on one limb more
RECURSIVE LimbsDivFrom(_, _, _, _, _)
LimbsDivFrom(A, B, i, q, rem) ==
    IF i > 16 * Len(A) THEN [q |-> q, rem |-> rem]
    ELSE LET n == Len(A)
             rem2 == LimbsAdd(rem, rem, n + 1, LimbsBit(A, i))
             fits == ~LimbsGreater(<<0>> \o B, rem2)
             q2 == LimbsAdd(q, q, n, IF fits THEN 1 ELSE 0)
             rem3 == IF fits THEN LimbsSub(rem2, <<0>> \o B, n + 1, 0)
                     ELSE rem2
         IN  IF Len(q2) = n /\ Len(rem3) = n + 1
             THEN LimbsDivFrom(A, B, i + 1, q2, rem3)
             ELSE [q |-> q, rem |-> rem]

\* a / b of C for unsigned integers of one width, b nonzero
UDiv(A, B) ==
    LimbsDivFrom(A, B, 1, ZeroLimbs(Len(A)), ZeroLimbs(Len(A) + 1)).q

\* Division by zero is undefined behaviour: the divide instruction traps
\* and the process is ended by the signal, or, on hardware whose divide
\* instruction does not trap, the quotient is zero.
UDivOutcomes(A, B) ==
    IF B = ZeroLimbs(Len(B))
    THEN {[trap |-> TRUE, v |-> ZeroLimbs(Len(A))],
          [trap |-> FALSE, v |-> ZeroLimbs(Len(A))]}
    ELSE {[trap |-> FALSE, v |-> UDiv(A, B)]}

\* d32_div and d64_div of the placeholders: a / b
placeholder_d32_div(p, q) == UDivOutcomes(p, q)

placeholder_d64_div(p, q) == UDivOutcomes(p, q)

\* d128_div of the placeholders: {a.low / b.low, a.high / b.high}
placeholder_d128_div(p, q) ==
    {[trap |-> lo.trap \/ hi.trap, v |-> [low |-> lo.v, high |-> hi.v]] :
        lo \in UDivOutcomes(p.low, q.low), hi \in UDivOutcomes(p.high, q.high)}

\* a + b and a - b of C for unsigned integers of one width: modulo 2^width
UAdd(A, B) == LimbsAdd(A, B, Len(A), 0)

USub(A, B) == LimbsSub(A, B, Len(A), 0)

\* a * b of C for unsigned integers of one width, modulo 2^width: the bits
\* of B from the most significant bit i on, doubling and adding
RECURSIVE UMulFrom(_, _, _, _)
UMulFrom(A, B, i, acc) ==
    IF i > 16 * Len(B) THEN acc
    ELSE LET dbl == UAdd(acc, acc)
             nxt == IF LimbsBit(B, i) = 1 THEN UAdd(dbl, A) ELSE dbl
         IN  IF Len(nxt) = Len(A) THEN UMulFrom(A, B, i + 1, nxt) ELSE acc

UMul(A, B) == UMulFrom(A, B, 1, ZeroLimbs(Len(A)))

\* (a > b) - (a < b) of C for unsigned integers of one width
UCmp(A, B) == CBool(LimbsGreater(A, B)) - CBool(LimbsGreater(B, A))

\* d32_add, d32_sub, d32_mul, d32_cmp of the placeholders
placeholder_d32_add(p, q) == UAdd(p, q)

placeholder_d32_sub(p, q) == USub(p, q)

placeholder_d32_mul(p, q) == UMul(p, q)

placeholder_d32_cmp(p, q) == UCmp(p, q)

\* d64_add, d64_sub, d64_mul, d64_cmp of the placeholders
placeholder_d64_add(p, q) == UAdd(p, q)

placeholder_d64_sub(p, q) == USub(p, q)

placeholder_d64_mul(p, q) == UMul(p, q)

placeholder_d64_cmp(p, q) == UCmp(p, q)

\* d128_add, d128_sub, d128_mul of the placeholders: word by word, no carry
\* from the low word into the high word
placeholder_d128_add(p, q) ==
    [low |-> UAdd(p.low, q.low), high |-> UAdd(p.high, q.high)]

placeholder_d128_sub(p, q) ==
    [low |-> USub(p.low, q.low), high |-> USub(p.high, q.high)]

placeholder_d128_mul(p, q) ==
    [low |-> UMul(p.low, q.low), high |-> UMul(p.high, q.high)]

\* Mutant: the low words are compared first.
placeholder_d128_cmp_lowFirst(p, q) ==
    IF p.low # q.low THEN UCmp(p.low, q.low) ELSE UCmp(p.high, q.high)

\* d128_cmp of the placeholders: the high words, then the low words
placeholder_d128_cmp(p, q) ==
    IF p.high # q.high THEN UCmp(p.high, q.high) ELSE UCmp(p.low, q.low)

\* a call of the division name on P and Q with the outcome o (value as
\* limbs): the quotient is returned, or the trap ends the process
PlaceholderDivided(wd, name, P, Q, o) ==
    /\ w' = wd
    /\ op' = name
    /\ src' = "caller"
    /\ da' = P
    /\ db' = Q
    /\ dr' = o.v
    /\ proc' = IF o.trap THEN "terminated" ELSE proc
    /\ UNCHANGED <<a, b, x, fpu, r, glbflags, heap, sa, sb, thr, tls,
                   tracking, overflow, y>>

PlaceholderDiv32 ==
    /\ op = "none"
    /\ \E p \in D32Samples, q \in D32Samples :
        \E o \in placeholder_d32_div(p, q) :
            PlaceholderDivided(32, "d32_div", p, q, o)

PlaceholderDiv64 ==
    /\ op = "none"
    /\ \E p \in D64Samples, q \in D64Samples :
        \E o \in placeholder_d64_div(p, q) :
            PlaceholderDivided(64, "d64_div", p, q, o)

PlaceholderDiv128 ==
    /\ op = "none"
    /\ \E p \in D128Samples, q \in D128Samples :
        \E o \in placeholder_d128_div(p, q) :
            PlaceholderDivided(128, "d128_div", Bits128(p), Bits128(q),
                               [trap |-> o.trap, v |-> Bits128(o.v)])

\* patterns that are small binary32 numbers when read as float: 1.0, 2.0,
\* 3.0, -1.0, 0.5, the smallest subnormal of both signs
FloatPatterns32 ==
    {<<16256, 0>>, <<16384, 0>>, <<16448, 0>>, <<49024, 0>>, <<16128, 0>>,
     <<0, 1>>, <<32768, 1>>}

FallbackSamples32 == D32Samples \cup FloatPatterns32

\* a call of the placeholder name on P and Q that returned the pattern R
PlaceholderReturned(wd, name, P, Q, R) ==
    /\ w' = wd
    /\ op' = name
    /\ src' = "caller"
    /\ da' = P
    /\ db' = Q
    /\ dr' = R
    /\ UNCHANGED <<a, b, x, fpu, r, runtime>>

\* a call of the placeholder comparison name on P and Q that returned res
PlaceholderCompared(wd, name, P, Q, res) ==
    /\ w' = wd
    /\ op' = name
    /\ src' = "caller"
    /\ da' = P
    /\ db' = Q
    /\ r' = res
    /\ UNCHANGED <<a, b, x, fpu, dr, runtime>>

PlaceholderAdd ==
    /\ op = "none"
    /\ \/ \E p \in FallbackSamples32, q \in FallbackSamples32 :
            PlaceholderReturned(32, "d32_add", p, q, placeholder_d32_add(p, q))
       \/ \E p \in D64Samples, q \in D64Samples :
            PlaceholderReturned(64, "d64_add", p, q, placeholder_d64_add(p, q))
       \/ \E p \in D128Samples, q \in D128Samples :
            PlaceholderReturned(128, "d128_add", Bits128(p), Bits128(q),
                                Bits128(placeholder_d128_add(p, q)))

PlaceholderSub ==
    /\ op = "none"
    /\ \/ \E p \in FallbackSamples32, q \in FallbackSamples32 :
            PlaceholderReturned(32, "d32_sub", p, q, placeholder_d32_sub(p, q))
       \/ \E p \in D64Samples, q \in D64Samples :
            PlaceholderReturned(64, "d64_sub", p, q, placeholder_d64_sub(p, q))
       \/ \E p \in D128Samples, q \in D128Samples :
            PlaceholderReturned(128, "d128_sub", Bits128(p), Bits128(q),
                                Bits128(placeholder_d128_sub(p, q)))

PlaceholderMul ==
    /\ op = "none"
    /\ \/ \E p \in FallbackSamples32, q \in FallbackSamples32 :
            PlaceholderReturned(32, "d32_mul", p, q, placeholder_d32_mul(p, q))
       \/ \E p \in D64Samples, q \in D64Samples :
            PlaceholderReturned(64, "d64_mul", p, q, placeholder_d64_mul(p, q))
       \/ \E p \in D128Samples, q \in D128Samples :
            PlaceholderReturned(128, "d128_mul", Bits128(p), Bits128(q),
                                Bits128(placeholder_d128_mul(p, q)))

PlaceholderCmp ==
    /\ op = "none"
    /\ \/ \E p \in FallbackSamples32, q \in FallbackSamples32 :
            PlaceholderCompared(32, "d32_cmp", p, q, placeholder_d32_cmp(p, q))
       \/ \E p \in D64Samples, q \in D64Samples :
            PlaceholderCompared(64, "d64_cmp", p, q, placeholder_d64_cmp(p, q))
       \/ \E p \in D128Samples, q \in D128Samples :
            PlaceholderCompared(128, "d128_cmp", Bits128(p), Bits128(q),
                                placeholder_d128_cmp(p, q))

\* what "%u" and "%llu" write for the unsigned integer on the limbs A
UnsignedText(A) == IF A = ZeroLimbs(Len(A)) THEN <<"0">> ELSE LimbsDigits(A)

\* what snprintf(result, size, ...) leaves before the NUL: at most size - 1
\* characters of the text t
Snprintf(size, t) ==
    IF Len(t) < size THEN t ELSE SubSeq(t, 1, size - 1)

\* char* d32_to_string(uint32_t val) of the placeholders: the size of the
\* block and the text written into it
placeholder_d32_to_string(p) ==
    [size |-> 32, text |-> Snprintf(32, UnsignedText(p))]

\* char* d64_to_string(uint64_t val) of the placeholders
placeholder_d64_to_string(p) ==
    [size |-> 32, text |-> Snprintf(32, UnsignedText(p))]

\* char* d128_to_string(d128_t val) of the placeholders: the high word, a
\* colon, the low word
placeholder_d128_to_string(p) ==
    [size |-> 64,
     text |-> Snprintf(64, UnsignedText(p.high) \o <<":">>
                               \o UnsignedText(p.low))]

\* the patterns whose text the caller asks for: those of the library build
\* and the largest unsigned integer of each width
PlaceholderTextSamples ==
    TextSamples
        \cup {[wd |-> 32, L |-> <<65535, 65535>>],
              [wd |-> 64, L |-> <<65535, 65535, 65535, 65535>>],
              [wd |-> 128,
               L |-> <<65535, 65535, 65535, 65535,
                       65535, 65535, 65535, 65535>>]}

\* a call of the placeholder dN_to_string on the pattern L that asks malloc
\* for res.size bytes: malloc returns a block that overlaps no live block,
\* or the null pointer; the result of malloc is not tested, snprintf writes
\* the text through it and the pointer is returned.  A write through the
\* null pointer ends the process.
PlaceholderPrinted(wd, L, res) ==
    /\ w' = wd
    /\ op' = ToStringName(wd)
    /\ src' = "caller"
    /\ da' = L
    /\ \/ \E id \in Addresses \ LiveIds :
            /\ heap' = heap \cup {[id |-> id, size |-> res.size,
                                   text |-> res.text]}
            /\ r' = id
            /\ proc' = proc
       \/ /\ heap' = heap
          /\ r' = 0
          /\ proc' = "terminated"
    /\ UNCHANGED <<a, b, x, fpu, db, dr, glbflags, sa, sb, thr, tls,
                   tracking, overflow, y>>

\* d32_to_string, d64_to_string or d128_to_string of the placeholders on a
\* pattern the caller chooses
PlaceholderToString ==
    /\ proc = "running"
    /\ op \in {"none", "free"} \cup ToStringOps
    /\ \/ \E smp \in PlaceholderTextSamples :
            /\ smp.wd = 32
            /\ PlaceholderPrinted(32, smp.L, placeholder_d32_to_string(smp.L))
       \/ \E smp \in PlaceholderTextSamples :
            /\ smp.wd = 64
            /\ PlaceholderPrinted(64, smp.L, placeholder_d64_to_string(smp.L))
       \/ \E smp \in PlaceholderTextSamples :
            /\ smp.wd = 128
            /\ PlaceholderPrinted(128, smp.L,
                                  placeholder_d128_to_string(Struct128(smp.L)))

NextFallback ==
    \/ PlaceholderDiv32 \/ PlaceholderDiv64 \/ PlaceholderDiv128
    \/ PlaceholderAdd \/ PlaceholderSub \/ PlaceholderMul \/ PlaceholderCmp
    \/ PlaceholderToString \/ Free

SpecFallback == Init /\ [][NextFallback]_vars

DivOps == {"d32_div", "d64_div", "d128_div"}

\* C13: no decimal division terminates the process: in every build, the
\* placeholder build included, d32_div, d64_div and d128_div return a value
\* for every operand pair, a zero divisor included.
C13_DivisionReturns == op \in DivOps => proc = "running"

\* a division whose divisor pattern is not the integer zero returns the
\* unsigned quotient of the patterns
C13_NonzeroDivisorReturns ==
    (op \in DivOps /\ db # ZeroLimbs(Len(db))
        /\ (w = 128 => /\ SubSeq(db, 1, 4) # ZeroLimbs(4)
                       /\ SubSeq(db, 5, 8) # ZeroLimbs(4)))
    => proc = "running"

\* d32_div(1E0, 0E-101): the divisor is the all-zero pattern, and the
\* process is ended by the trap
C13_Witness ==
    /\ op = "d32_div" /\ da = <<12928, 1>> /\ db = <<0, 0>>
    /\ proc = "terminated"

\* d128_div by the decimal zero 0E0, whose low word is zero
C13_Witness128 ==
    /\ op = "d128_div" /\ db = <<12352, 0, 0, 0, 0, 0, 0, 0>>
    /\ proc = "terminated"

\* d32_div(10E0, 5E0) returned the quotient of the patterns, 1
C13_WitnessQuotient ==
    /\ op = "d32_div" /\ da = <<12928, 10>> /\ db = <<12928, 5>>
    /\ dr = <<0, 1>> /\ proc = "running"

----------------------------------------------------------------------------
(* The decimal-library build, two threads calling.  The library is used     *)
(* with its rounding mode and its status flags as globals (the calls pass   *)
(* neither): a call reads the rounding mode, which nothing writes, and ORs  *)
(* the flags it raises into the status word, a load and then a store.  The  *)
(* status word is one per process, or one per thread when the library is    *)
(* built with thread-local storage.                                         *)

FlagCell(t) == IF tls THEN t ELSE 0

\* the calls a thread makes: exact, inexact and invalid additions, an
\* inexact and an overflowing narrowing, and a binary16 addition
ThreadCalls ==
    {[name |-> "d32_add", P |-> <<12800, 15>>, Q |-> <<12672, 225>>],
     [name |-> "d32_add", P |-> <<27832, 38527>>, Q |-> <<12800, 5>>],
     [name |-> "d32_add", P |-> <<32256, 0>>, Q |-> <<12928, 1>>],
     [name |-> "d64_to_d32", P |-> <<12740, 25301, 15498, 47808>>, Q |-> <<>>],
     [name |-> "d64_to_d32", P |-> <<19136, 0, 0, 1>>, Q |-> <<>>],
     [name |-> "rf_f16_add", P |-> <<15360>>, Q |-> <<16384>>]}

\* the outcomes [v, f] of the call c made alone
CallOutcomes(c) ==
    IF c.name = "d32_add" THEN {d32_add(c.P, c.Q)}
    ELSE IF c.name = "d64_to_d32" THEN d64_to_d32(c.P)
    ELSE {[v |-> <<rf_f16_add(c.P[1], c.Q[1])>>, f |-> {}]}

\* the thread t enters a call and computes its result and the flags to raise
ThreadEnter(t) ==
    /\ thr[t].pc = "idle"
    /\ \E c \in ThreadCalls :
        \E o \in CallOutcomes(c) :
            thr' = [thr EXCEPT ![t] =
                       [pc |-> "computed", name |-> c.name, P |-> c.P,
                        Q |-> c.Q, raised |-> o.f, seen |-> {}, ret |-> o.v]]
    /\ UNCHANGED <<w, src, a, b, x, op, r, fpu, da, db, dr,
                   glbflags, heap, proc, sa, sb, tls,
                   tracking, overflow, y>>

\* the call loads the status word
ThreadLoadFlags(t) ==
    /\ thr[t].pc = "computed"
    /\ thr[t].raised # {}
    /\ thr' = [thr EXCEPT ![t].pc = "loaded",
                          ![t].seen = glbflags[FlagCell(t)]]
    /\ UNCHANGED <<w, src, a, b, x, op, r, fpu, da, db, dr,
                   glbflags, heap, proc, sa, sb, tls,
                   tracking, overflow, y>>

\* the call stores the status word with its flags added
ThreadStoreFlags(t) ==
    /\ thr[t].pc = "loaded"
    /\ glbflags' = [glbflags EXCEPT ![FlagCell(t)] =
                       thr[t].seen \cup thr[t].raised]
    /\ thr' = [thr EXCEPT ![t].pc = "stored"]
    /\ UNCHANGED <<w, src, a, b, x, op, r, fpu, da, db, dr,
                   heap, proc, sa, sb, tls,
                   tracking, overflow, y>>

\* the call returns its result
ThreadReturn(t) ==
    /\ \/ thr[t].pc = "stored"
       \/ thr[t].pc = "computed" /\ thr[t].raised = {}
    /\ thr' = [thr EXCEPT ![t].pc = "returned"]
    /\ UNCHANGED <<w, src, a, b, x, op, r, fpu, da, db, dr,
                   glbflags, heap, proc, sa, sb, tls,
                   tracking, overflow, y>>

NextThreads ==
    \E t \in Threads :
        \/ ThreadEnter(t) \/ ThreadLoadFlags(t)
        \/ ThreadStoreFlags(t) \/ ThreadReturn(t)

\* as Init, with the library built with or without thread-local storage
InitThreads ==
    /\ w = 16
    /\ src = "none"
    /\ a = 0
    /\ b = 0
    /\ x = F32(0, 0, 0)
    /\ op = "none"
    /\ r = 0
    /\ fpu = [dnan |-> 0, pick |-> "first"]
    /\ da = <<>>
    /\ db = <<>>
    /\ dr = <<>>
    /\ glbflags = [c \in FlagCells |-> {}]
    /\ heap = {}
    /\ proc = "running"
    /\ sa = <<>>
    /\ sb = <<>>
    /\ thr = [t \in Threads |-> ThreadIdle]
    /\ tls \in BOOLEAN
    /\ StackInit
    /\ overflow = FALSE
    /\ y = [s |-> 0, e |-> 0, m |-> 0]

SpecThreads == InitThreads /\ [][NextThreads]_vars

\* C14: every f16 and decimal operation is a function of its arguments
\* under any interleaving of calls from any threads, and no call reads or
\* writes state that another call can observe: no status flags, rounding
\* mode or global context is shared.  No step of a call changes the
\* library's status flags.
C14_NoSharedState == [][glbflags' = glbflags]_vars

\* the value a call returns is a value the same call returns when it is
\* made alone, whatever the other thread does
C14_ValueIndependent ==
    \A t \in Threads :
        thr[t].pc = "returned" =>
            thr[t].ret \in
                {o.v : o \in CallOutcomes([name |-> thr[t].name,
                                            P |-> thr[t].P, Q |-> thr[t].Q])}

\* thread 1 has returned from the inexact d32_add and left the inexact flag
\* in the status word that the call of thread 2 is about to load
C14_Witness ==
    /\ ~tls
    /\ thr[1].pc = "returned" /\ thr[1].name = "d32_add"
    /\ thr[1].raised = {"inexact"}
    /\ thr[2].pc = "computed" /\ thr[2].raised = {"invalid"}
    /\ glbflags[0] = {"inexact"}

\* both calls have returned and the flag thread 1 raised is lost: the two
\* load-and-store sequences on the shared status word interleaved
C14_WitnessLostUpdate ==
    /\ ~tls
    /\ thr[1].pc = "returned" /\ thr[1].raised = {"inexact"}
    /\ thr[2].pc = "returned" /\ thr[2].raised = {"invalid"}
    /\ glbflags[0] = {"invalid"}

\* with thread-local flags the call still writes state that the next call
\* of the same thread observes
C14_WitnessThreadLocal ==
    /\ tls
    /\ thr[1].pc = "returned" /\ glbflags[1] = {"inexact", "overflow"}

----------------------------------------------------------------------------
(* The binary16 comparisons against the float comparisons of the promoted   *)
(* operands.                                                                *)

\* the C operators == and != on float operands
f32_eq(f, g) == ~IsNaN32(f) /\ ~IsNaN32(g) /\ Key32(f) = Key32(g)
f32_ne(f, g) == ~f32_eq(f, g)

\* the float comparison that the binary16 comparison name stands for, applied
\* to the promoted operands
PromotedCompare(name, h1, h2) ==
    LET f == rf_f16_to_f32(h1)
        g == rf_f16_to_f32(h2)
    IN  CASE name = "rf_f16_eq" -> f32_eq(f, g)
          [] name = "rf_f16_ne" -> f32_ne(f, g)
          [] name = "rf_f16_lt" -> f32_lt(f, g)
          [] name = "rf_f16_le" -> f32_le(f, g)
          [] name = "rf_f16_gt" -> f32_gt(f, g)
          [] name = "rf_f16_ge" -> f32_ge(f, g)

\* C21: every binary16 comparison returns the truth value of the matching
\* float comparison (==, !=, <, <=, >, >=) of the two promoted operands,
\* rf_f16_eq and rf_f16_ne included, which work on the bit patterns.
C21_PromoteThenCompare ==
    (w = 16 /\ src = "caller" /\ op \in F16Comparisons)
        => r = CBool(PromotedCompare(op, a, b))

\* rf_f16_lt(-1.0, 1.0) has returned 1 although 0xBC00 > 0x3C00 as integers
C21_Witness == F16Called("rf_f16_lt") /\ a = 48128 /\ b = 15360 /\ r = 1

\* rf_f16_ne on a NaN and a number has returned 1, as != does on floats
C21_WitnessUnordered == F16Called("rf_f16_ne") /\ a = 32256 /\ b = 15360 /\ r = 1

\* rf_f16_eq on two different subnormal patterns has returned 0
C21_WitnessSubnormal == F16Called("rf_f16_eq") /\ a = 1 /\ b = 1023 /\ r = 0

----------------------------------------------------------------------------
(* The binary16 classification predicates.                                  *)

F16Predicates ==
    {"rf_f16_isnan", "rf_f16_isinf", "rf_f16_isfinite", "rf_f16_isnormal",
     "rf_f16_iszero", "rf_f16_signbit"}

\* the predicate name applied to h
Predicate16(name, h) ==
    CASE name = "rf_f16_isnan" -> rf_f16_isnan(h)
      [] name = "rf_f16_isinf" -> rf_f16_isinf(h)
      [] name = "rf_f16_isfinite" -> rf_f16_isfinite(h)
      [] name = "rf_f16_isnormal" -> rf_f16_isnormal(h)
      [] name = "rf_f16_iszero" -> rf_f16_iszero(h)
      [] name = "rf_f16_signbit" -> rf_f16_signbit(h)

\* exponent field 0 with a nonzero mantissa
Subnormal16(h) == CBool((h % 32768) \in 1..1023)

\* the classes a pattern is put in by the four class predicates and the
\* subnormal test
Classes16(h) ==
    {c \in {"rf_f16_isnan", "rf_f16_isinf", "rf_f16_iszero",
            "rf_f16_isnormal"} : Predicate16(c, h) # 0}
        \cup (IF Subnormal16(h) # 0 THEN {"subnormal"} ELSE {})

\* C22: the operand of a classification call is in exactly one of the classes
\* NaN, infinity, zero, normal and subnormal; rf_f16_isfinite holds exactly
\* when neither rf_f16_isnan nor rf_f16_isinf does; and the call has returned
\* 0 or 1, the value the predicate has on the operand's bits whatever the
\* operand's origin.
C22_ClassPartition ==
    (w = 16 /\ op \in F16Predicates) =>
        /\ Cardinality(Classes16(a)) = 1
        /\ (rf_f16_isfinite(a) = 1)
              <=> (rf_f16_isnan(a) = 0 /\ rf_f16_isinf(a) = 0)
        /\ r \in {0, 1}
        /\ r = Predicate16(op, a)

\* rf_f16_isnormal on the largest subnormal has returned 0
C22_Witness == F16Called("rf_f16_isnormal") /\ a = 1023 /\ r = 0

\* rf_f16_isfinite on a NaN has returned 0
C22_WitnessNaN == F16Called("rf_f16_isfinite") /\ a = 32256 /\ r = 0

\* rf_f16_iszero on the negative zero has returned 1
C22_WitnessZero == F16Called("rf_f16_iszero") /\ a = 32768 /\ r = 1

----------------------------------------------------------------------------
(* The placeholder arithmetic against binary32 arithmetic on the same       *)
(* patterns.                                                                *)

\* the binary32 value whose bit pattern is the two limbs L, and back
BitsF32(L) ==
    F32(L[1] \div 32768, (L[1] % 32768) \div 128, (L[1] % 128) * 65536 + L[2])

F32Bits(f) == <<f.s * 32768 + f.e * 128 + (f.m \div 65536), f.m % 65536>>

\* (a > b) - (a < b) on float operands
f32_cmp(f, g) == CBool(f32_gt(f, g)) - CBool(f32_lt(f, g))

\* C23: in the build without HAVE_LIBDFP, d32_add, d32_sub and d32_mul return
\* the bit pattern of the binary32 sum, difference and product of the
\* operands read as binary32 bit patterns, and d32_cmp orders the operands
\* as binary32 values.
C23_FallbackBinaryFloat ==
    /\ (w = 32 /\ op = "d32_add")
          => dr = F32Bits(f32_add(BitsF32(da), BitsF32(db)))
    /\ (w = 32 /\ op = "d32_sub")
          => dr = F32Bits(f32_sub(BitsF32(da), BitsF32(db)))
    /\ (w = 32 /\ op = "d32_mul")
          => dr = F32Bits(f32_mul(BitsF32(da), BitsF32(db)))
    /\ (w = 32 /\ op = "d32_cmp")
          => r = f32_cmp(BitsF32(da), BitsF32(db))

\* what the placeholders compute: the sum, difference and product of the
\* patterns as unsigned integers modulo 2^32 or 2^64, and the order of the
\* patterns as unsigned integers
C23_FallbackInteger ==
    /\ (w \in {32, 64} /\ op \in {"d32_add", "d64_add"}) => dr = UAdd(da, db)
    /\ (w \in {32, 64} /\ op \in {"d32_sub", "d64_sub"}) => dr = USub(da, db)
    /\ (w \in {32, 64} /\ op \in {"d32_mul", "d64_mul"}) => dr = UMul(da, db)
    /\ (w \in {32, 64} /\ op \in {"d32_cmp", "d64_cmp"}) => r = UCmp(da, db)

\* d32_add on the patterns of 1.0f and 1.0f has returned 0x7F000000, not the
\* pattern 0x40000000 of 2.0f
C23_Witness ==
    /\ w = 32 /\ op = "d32_add"
    /\ da = <<16256, 0>> /\ db = <<16256, 0>> /\ dr = <<32512, 0>>

\* d32_cmp on the patterns of -1.0f and 1.0f has returned 1
C23_WitnessOrder ==
    /\ w = 32 /\ op = "d32_cmp"
    /\ da = <<49024, 0>> /\ db = <<16256, 0>> /\ r = 1

----------------------------------------------------------------------------
(* The word order of d128_t across to_bid128 and from_bid128.               *)

D128Predicates == {"rf_d128_isnan", "rf_d128_isinf", "rf_d128_signbit"}

\* bits 58..62 of a 64-bit word: the five bits after the sign bit
TopFive(W) == (W[1] % 32768) \div 1024

\* C24: to_bid128 puts low in word 0 and high in word 1 and from_bid128
\* undoes it, so that the round trip gives back the d128_t; and what
\* rf_d128_signbit, rf_d128_isnan and rf_d128_isinf return is read from the
\* high word alone: bit 63, and the five bits after it being 11111 or 11110.
C24_WordOrder ==
    (w = 128 /\ op \in D128Predicates) =>
        LET v == Struct128(da)
            words == to_bid128(v)
        IN  /\ words[0] = v.low
            /\ words[1] = v.high
            /\ from_bid128(words) = v
            /\ op = "rf_d128_signbit" => r = v.high[1] \div 32768
            /\ op = "rf_d128_isnan" => r = CBool(TopFive(v.high) = 31)
            /\ op = "rf_d128_isinf" => r = CBool(TopFive(v.high) = 30)

\* rf_d128_isnan has returned 0 on a number whose low word is all ones, a
\* word that has the NaN bits set
C24_Witness ==
    /\ w = 128 /\ op = "rf_d128_isnan" /\ r = 0
    /\ da = <<27664, 32767, 65535, 65535, 65535, 65535, 65535, 65535>>

\* rf_d128_signbit has returned 0 on the same operand
C24_WitnessSign ==
    /\ w = 128 /\ op = "rf_d128_signbit" /\ r = 0
    /\ da = <<27664, 32767, 65535, 65535, 65535, 65535, 65535, 65535>>

\* rf_d128_isinf has returned 1 on an infinity with a nonzero low word
C24_WitnessInf ==
    /\ w = 128 /\ op = "rf_d128_isinf" /\ r = 1
    /\ da = <<30720, 0, 0, 0, 0, 0, 0, 1>>

----------------------------------------------------------------------------
(* stacktrace.c: the runtime call stack of one thread.  Compiler-generated  *)
(* code calls __rf_stack_push at routine entry and __rf_stack_pop at        *)
(* routine exit; __rf_stack_capture copies the newest frames into the       *)
(* caller's record when an error is built, which ends the sequence of pushes *)
(* and pops; __rf_throw ends the process.                                   *)

\* the frames the routine entered at depth d may pass: routine d + 1 of
\* file 1, and for the outermost routine either of two types
EntryFrames(d) ==
    {[file_id |-> 1, routine_id |-> d + 1, type_id |-> t,
      line_no |-> 10 * (d + 1), column_no |-> 4] :
        t \in (IF d = 0 THEN {0, 7} ELSE {0})}

\* Mutant: the bound test lets a push through at depth 256.
rf_stack_push_offByOne(stk, d, f) ==
    IF d > RF_RUNTIME_STACK_MAX
    THEN [stack |-> stk, depth |-> d, exited |-> TRUE]
    ELSE [stack |-> [i \in DOMAIN stk |-> IF i = d THEN f ELSE stk[i]],
          depth |-> d + 1, exited |-> FALSE]

\* void __rf_stack_push(file_id, routine_id, type_id, line_no, column_no):
\* the array and the depth afterwards, or exit(1) with both untouched
rf_stack_push(stk, d, f) ==
    IF d >= RF_RUNTIME_STACK_MAX
    THEN [stack |-> stk, depth |-> d, exited |-> TRUE]
    ELSE [stack |-> [stk EXCEPT ![d] = f], depth |-> d + 1, exited |-> FALSE]

\* void __rf_stack_pop(void): the depth afterwards
rf_stack_pop(d) == IF d > 0 THEN d - 1 ELSE d

\* Mutant: the frames are copied oldest first.
rf_stack_capture_oldestFirst(stk, d) ==
    LET n == IF d > RF_STACK_TRACE_MAX_FRAMES
             THEN RF_STACK_TRACE_MAX_FRAMES ELSE d
    IN  [frames |-> [i \in 0..(RF_STACK_TRACE_MAX_FRAMES - 1) |->
                        IF i < n THEN stk[i] ELSE ZeroFrame],
         depth |-> n]

\* void __rf_stack_capture(rf_StackTrace* out_trace) for a non-null pointer:
\* the record written
rf_stack_capture(stk, d) ==
    LET frames_to_copy == IF d > RF_STACK_TRACE_MAX_FRAMES
                          THEN RF_STACK_TRACE_MAX_FRAMES ELSE d
    IN  [frames |-> [i \in 0..(RF_STACK_TRACE_MAX_FRAMES - 1) |->
                        IF i < frames_to_copy THEN stk[d - 1 - i]
                        ELSE ZeroFrame],
         depth |-> frames_to_copy]

\* a call of the stack-trace support named name
StackCalled(name) ==
    /\ op' = name
    /\ src' = "caller"
    /\ UNCHANGED <<w, a, b, x, r, fpu, da, db, dr, glbflags, heap, sa, sb,
                   thr, tls, overflow, y>>

StackPush ==
    /\ proc = "running"
    /\ out_trace = "none"
    /\ \E f \in EntryFrames(rf_runtime_stack_depth) :
        LET o == rf_stack_push(rf_runtime_stack, rf_runtime_stack_depth, f)
        IN  /\ rf_runtime_stack' = o.stack
            /\ rf_runtime_stack_depth' = o.depth
            /\ proc' = IF o.exited THEN "exit(1)" ELSE proc
    /\ StackCalled("__rf_stack_push")
    /\ UNCHANGED <<out_trace, trace>>

StackPop ==
    /\ proc = "running"
    /\ out_trace = "none"
    /\ rf_runtime_stack_depth' = rf_stack_pop(rf_runtime_stack_depth)
    /\ StackCalled("__rf_stack_pop")
    /\ UNCHANGED <<proc, rf_runtime_stack, out_trace, trace>>

\* the pointer is null, or points to the caller's record
StackCapture ==
    /\ proc = "running"
    /\ out_trace = "none"
    /\ \/ /\ out_trace' = "NULL"
          /\ UNCHANGED trace
       \/ /\ out_trace' = "trace"
          /\ trace' = rf_stack_capture(rf_runtime_stack, rf_runtime_stack_depth)
    /\ StackCalled("__rf_stack_capture")
    /\ UNCHANGED <<proc, rf_runtime_stack, rf_runtime_stack_depth>>

\* void __rf_throw(error_type, message), called directly or through
\* __rf_throw_absent, __rf_throw_division_by_zero,
\* __rf_throw_index_out_of_bounds, __rf_throw_integer_overflow,
\* __rf_throw_empty_collection or __rf_throw_element_not_found, which only
\* choose the two texts: the texts and the current stack are printed to
\* stderr and exit(1) ends the process, at any depth, the array and the
\* depth as they were
StackThrow ==
    /\ proc = "running"
    /\ proc' = "exit(1)"
    /\ StackCalled("__rf_throw")
    /\ UNCHANGED <<rf_runtime_stack, rf_runtime_stack_depth, out_trace, trace>>

NextStack == StackPush \/ StackPop \/ StackCapture \/ StackThrow

SpecStack == Init /\ [][NextStack]_vars

\* what one call of push, pop or throw does to the depth, the array and the
\* process
StackStep ==
    LET d == rf_runtime_stack_depth
    IN  /\ (op' = "__rf_stack_push" /\ d < RF_RUNTIME_STACK_MAX) =>
              /\ rf_runtime_stack_depth' = d + 1
              /\ rf_runtime_stack'[d] \in EntryFrames(d)
              /\ \A i \in DOMAIN rf_runtime_stack :
                    i # d => rf_runtime_stack'[i] = rf_runtime_stack[i]
              /\ proc' = "running"
        /\ (op' = "__rf_stack_push" /\ d = RF_RUNTIME_STACK_MAX) =>
              /\ proc' = "exit(1)"
              /\ rf_runtime_stack' = rf_runtime_stack
              /\ rf_runtime_stack_depth' = d
        /\ (op' = "__rf_stack_pop" /\ d = 0) =>
              rf_runtime_stack_depth' = 0 /\ rf_runtime_stack' = rf_runtime_stack
        /\ (op' = "__rf_stack_pop" /\ d > 0) =>
              rf_runtime_stack_depth' = d - 1 /\ rf_runtime_stack' = rf_runtime_stack
        /\ op' = "__rf_stack_pop" => proc' = proc
        /\ op' = "__rf_throw" =>
              /\ proc' = "exit(1)"
              /\ rf_runtime_stack_depth' = d
              /\ rf_runtime_stack' = rf_runtime_stack

\* C25: through every sequence of pushes and pops the depth stays in 0..256;
\* a push below 256 stores the frame at index depth and adds one to the
\* depth; a push at 256 ends the process with exit status 1 and writes no
\* frame; a pop at depth 0 leaves the depth 0, a pop above 0 takes one off.
C25_DepthBounded ==
    /\ [](rf_runtime_stack_depth \in 0..RF_RUNTIME_STACK_MAX)
    /\ [][StackStep]_vars

\* the push at depth 256 has ended the process
C25_Witness ==
    /\ op = "__rf_stack_push" /\ proc = "exit(1)"
    /\ rf_runtime_stack_depth = 256
    /\ rf_runtime_stack[255].routine_id = 256

\* a pop has been made on the empty stack
C25_WitnessEmptyPop ==
    /\ op = "__rf_stack_pop" /\ rf_runtime_stack_depth = 0
    /\ rf_runtime_stack[0] = ZeroFrame

\* __rf_throw has ended the process at depth 1, after two pushes and a pop
C25_WitnessThrow ==
    /\ op = "__rf_throw" /\ proc = "exit(1)"
    /\ rf_runtime_stack_depth = 1
    /\ rf_runtime_stack[0].type_id = 7 /\ rf_runtime_stack[1].routine_id = 2
    /\ out_trace = "none"

\* a push has overwritten the frame a pop had left behind
C25_WitnessReuse ==
    /\ op = "__rf_stack_push" /\ rf_runtime_stack_depth = 1
    /\ rf_runtime_stack[0].type_id = 7 /\ rf_runtime_stack[1].routine_id = 2

\* the smaller of the depth d and the ten frames of a trace record
CaptureCount(d) ==
    IF d < RF_STACK_TRACE_MAX_FRAMES THEN d ELSE RF_STACK_TRACE_MAX_FRAMES

\* what one call of capture does
CaptureStep ==
    LET d == rf_runtime_stack_depth
        n == CaptureCount(d)
    IN  op' = "__rf_stack_capture" =>
            /\ rf_runtime_stack' = rf_runtime_stack
            /\ rf_runtime_stack_depth' = d
            /\ proc' = proc
            /\ out_trace' = "trace" =>
                  /\ trace'.depth = n
                  /\ \A i \in 0..(RF_STACK_TRACE_MAX_FRAMES - 1) :
                        trace'.frames[i] =
                            IF i < n THEN rf_runtime_stack[d - 1 - i]
                            ELSE ZeroFrame
            /\ out_trace' = "NULL" => trace' = trace

\* C26: __rf_stack_capture at runtime depth d writes depth = min(d, 10) into
\* the record, the runtime frame at index d-1-i into frames[i] for every
\* i < min(d, 10), newest first, and zeros into the other frames, and leaves
\* the runtime stack and its depth as they were; with a null pointer nothing
\* changes.
C26_CaptureNewestFirst == [][CaptureStep]_vars

\* a capture at depth 256 took the ten newest frames, routine 256 first
C26_Witness ==
    /\ op = "__rf_stack_capture" /\ out_trace = "trace"
    /\ rf_runtime_stack_depth = 256
    /\ trace.depth = 10
    /\ trace.frames[0].routine_id = 256 /\ trace.frames[9].routine_id = 247

\* a capture at depth 3 took three frames and zeroed the other seven
C26_WitnessShallow ==
    /\ op = "__rf_stack_capture" /\ out_trace = "trace"
    /\ rf_runtime_stack_depth = 3
    /\ trace.depth = 3
    /\ trace.frames[0].routine_id = 3 /\ trace.frames[2].type_id = 7
    /\ trace.frames[3] = ZeroFrame /\ trace.frames[9] = ZeroFrame

\* a capture into the null pointer left the caller's record as it was
C26_WitnessNull ==
    /\ op = "__rf_stack_capture" /\ out_trace = "NULL"
    /\ rf_runtime_stack_depth = 12 /\ trace = StaleTrace

----------------------------------------------------------------------------
(* rf_f16_min and rf_f16_max with the operands exchanged.                   *)

\* zeros of opposite sign
OppositeZeros16(h1, h2) == ZeroPattern16(h1) /\ ZeroPattern16(h2) /\ h1 # h2

\* the call named name with the operands exchanged
Exchanged16(name, h1, h2) ==
    IF name = "rf_f16_min" THEN rf_f16_min(h2, h1) ELSE rf_f16_max(h2, h1)

\* C27: on operands that are not NaN, rf_f16_min(a, b) and rf_f16_min(b, a)
\* are the same pattern, except on zeros of opposite sign, where each call
\* returns its second operand; the same for rf_f16_max; and the result is
\* the pattern of one of the two operands.
C27_MinMaxSymmetric ==
    (/\ w = 16 /\ src = "caller" /\ op \in F16MinMax
     /\ ~NaNPattern16(a) /\ ~NaNPattern16(b))
        => /\ r \in {a, b}
           /\ IF OppositeZeros16(a, b)
              THEN r = b /\ Exchanged16(op, a, b) = a
              ELSE r = Exchanged16(op, a, b)

\* rf_f16_min(+0, -0) has returned 0x8000
C27_Witness == F16Called("rf_f16_min") /\ a = 0 /\ b = 32768 /\ r = 32768

\* rf_f16_min(-0, +0) has returned 0x0000
C27_WitnessNegFirst == F16Called("rf_f16_min") /\ a = 32768 /\ b = 0 /\ r = 0

\* rf_f16_max(+0, -0) has returned 0x8000
C27_WitnessMax == F16Called("rf_f16_max") /\ a = 0 /\ b = 32768 /\ r = 32768

\* rf_f16_max(-1.0, 1.0) has returned 1.0, as rf_f16_max(1.0, -1.0) does
C27_WitnessOrdered ==
    F16Called("rf_f16_max") /\ a = 48128 /\ b = 15360 /\ r = 15360

----------------------------------------------------------------------------
(* NaN payloads through the conversions and through the sign operations.    *)

\* the bits 0..14 of a pattern
Low15(h) == h % F16_SIGN_MASK

\* C28: a NaN pattern h with mantissa m comes back from rf_f16_to_f32 and
\* rf_f16_from_f32 as (h & 0x8000) | 0x7E00 | (m >> 3): the sign is kept, bit
\* 9 is set, and the pattern differs from h whenever m is not
\* 0x200 | (m >> 3).  rf_f16_neg, rf_f16_abs and rf_f16_copysign leave bits
\* 0..14 of every operand as they are, NaN included, and rf_f16_neg applied
\* twice gives back the operand.
C28_NaNPayload ==
    /\ (RoundTripped /\ NaNPattern16(a)) =>
          LET m == MantField16(a)
          IN  /\ r = SignBits16(a) + F16_QNAN + (m \div 8)
              /\ SignBits16(r) = SignBits16(a)
              /\ (r \div 512) % 2 = 1
              /\ (m # 512 + (m \div 8)) => r # a
    /\ (op = "rf_f16_neg" /\ src = "caller") =>
          Low15(r) = Low15(a) /\ SignBits16(r) # SignBits16(a)
    /\ (op = "rf_f16_neg" /\ src = "rf_f16_neg") => r = a
    /\ op = "rf_f16_abs" => Low15(r) = Low15(a) /\ SignBits16(r) = 0
    /\ op = "rf_f16_copysign" =>
          Low15(r) = Low15(a) /\ SignBits16(r) = SignBits16(b)

\* 0x7C01 has come back as 0x7E00
C28_Witness == RoundTripped /\ a = 31745 /\ r = 32256

\* the negative NaN 0xFDFF has come back as 0xFE3F
C28_WitnessPayload == RoundTripped /\ a = 65023 /\ r = 65087

\* 0x7E49 has come back unchanged: its mantissa 0x249 is 0x200 | (0x249 >> 3)
C28_WitnessFixed == RoundTripped /\ a = 32329 /\ r = 32329

\* rf_f16_neg has been applied twice to the signaling NaN 0x7C01
C28_WitnessNegTwice ==
    op = "rf_f16_neg" /\ src = "rf_f16_neg" /\ a = 31745 /\ r = 31745

\* rf_f16_copysign has put the sign of -0 on the NaN 0x7DFF
C28_WitnessCopySign ==
    op = "rf_f16_copysign" /\ a = 32255 /\ b = 32768 /\ r = 65023

----------------------------------------------------------------------------
(* rf_f16_from_f32 on two ordered inputs.                                   *)

\* the state after two binary32 values have been demoted
DemotedPair == src = "f32 pair" /\ op = "rf_f16_from_f32"

\* C29: when x <= y for two binary32 values that are not NaN, infinities and
\* both zeros included, the value of rf_f16_from_f32(x) is less than or equal
\* to the value of rf_f16_from_f32(y), both read back with rf_f16_to_f32.
C29_Monotone ==
    (DemotedPair /\ f32_le(x, y)) =>
        /\ a = rf_f16_from_f32(x)
        /\ b = rf_f16_from_f32(y)
        /\ f32_le(rf_f16_to_f32(a), rf_f16_to_f32(b))

\* the largest value flushed to zero and the smallest one that is not:
\* 0x337FFFFF gives 0x0000 and 0x33800000 gives 0x0001
C29_Witness ==
    /\ DemotedPair
    /\ x = F32(0, 102, 8388607) /\ y = F32(0, 103, 0)
    /\ a = 0 /\ b = 1

\* 65519.996 and 65520 across the overflow boundary: 0x7BFF and 0x7C00
C29_WitnessOverflow ==
    /\ DemotedPair
    /\ x = F32(0, 142, 8384511) /\ y = F32(0, 142, 8384512)
    /\ a = 31743 /\ b = 31744

\* two negative values in the subnormal range
C29_WitnessNegative ==
    /\ DemotedPair
    /\ x = F32(1, 104, 4095) /\ y = F32(1, 104, 1)
    /\ a = 32770 /\ b = 32770

\* the zeros: x = +0 and y = -0 give 0x0000 and 0x8000
C29_WitnessZeros ==
    /\ DemotedPair /\ x = F32(0, 0, 0) /\ y = F32(1, 0, 0)
    /\ a = 0 /\ b = 32768

\* the largest finite binary32 value and infinity both give 0x7C00
C29_WitnessInfinity ==
    /\ DemotedPair /\ x = F32(0, 254, 8388607) /\ y = F32(0, 255, 0)
    /\ a = 31744 /\ b = 31744

----------------------------------------------------------------------------
(* i8.c: wrapping, saturating and checked arithmetic on rf_i8 (int8_t).     *)
(* The operands are integers in -128..127.                                  *)

INT8_MIN == -128

INT8_MAX == 127

\* (uint8_t)v, (rf_i8)v and (int16_t)v: the value modulo 2^8 or 2^16 in the
\* range of the type
ToU8(v) == v % 256

ToI8(v) == ((v + 128) % 256) - 128

ToI16(v) == ((v + 32768) % 65536) - 32768

\* rf_i8 rf_i8_add_wrap(rf_i8 a, rf_i8 b)
rf_i8_add_wrap(p, q) == ToI8(ToU8(p) + ToU8(q))

\* rf_i8 rf_i8_sub_wrap(rf_i8 a, rf_i8 b)
rf_i8_sub_wrap(p, q) == ToI8(ToU8(p) - ToU8(q))

\* rf_i8 rf_i8_mul_wrap(rf_i8 a, rf_i8 b)
rf_i8_mul_wrap(p, q) == ToI8(ToU8(p) * ToU8(q))

\* Mutant: the lower bound is not tested.
rf_i8_add_saturate_upperOnly(p, q) ==
    LET result == ToI16(ToI16(p) + ToI16(q))
    IN  IF result > INT8_MAX THEN INT8_MAX ELSE ToI8(result)

\* rf_i8 rf_i8_add_saturate(rf_i8 a, rf_i8 b)
rf_i8_add_saturate(p, q) ==
    LET result == ToI16(ToI16(p) + ToI16(q))
    IN  IF result > INT8_MAX THEN INT8_MAX
        ELSE IF result < INT8_MIN THEN INT8_MIN
        ELSE ToI8(result)

\* rf_i8 rf_i8_sub_saturate(rf_i8 a, rf_i8 b)
rf_i8_sub_saturate(p, q) ==
    LET result == ToI16(ToI16(p) - ToI16(q))
    IN  IF result > INT8_MAX THEN INT8_MAX
        ELSE IF result < INT8_MIN THEN INT8_MIN
        ELSE ToI8(result)

\* rf_i8_result rf_i8_add_checked(rf_i8 a, rf_i8 b)
rf_i8_add_checked(p, q) ==
    LET temp == ToI16(ToI16(p) + ToI16(q))
    IN  [value |-> ToI8(temp), overflow |-> temp > INT8_MAX \/ temp < INT8_MIN]

\* rf_i8_result rf_i8_sub_checked(rf_i8 a, rf_i8 b)
rf_i8_sub_checked(p, q) ==
    LET temp == ToI16(ToI16(p) - ToI16(q))
    IN  [value |-> ToI8(temp), overflow |-> temp > INT8_MAX \/ temp < INT8_MIN]

\* Mutant: the product is tested against the bounds after its conversion to
\* rf_i8.
rf_i8_mul_checked_lateTest(p, q) ==
    LET temp == ToI8(ToI16(p) * ToI16(q))
    IN  [value |-> temp, overflow |-> temp > INT8_MAX \/ temp < INT8_MIN]

\* rf_i8_result rf_i8_mul_checked(rf_i8 a, rf_i8 b)
rf_i8_mul_checked(p, q) ==
    LET temp == ToI16(ToI16(p) * ToI16(q))
    IN  [value |-> ToI8(temp), overflow |-> temp > INT8_MAX \/ temp < INT8_MIN]

\* stride of the sampled rf_i8 operands
I8Step == 9

\* the ends of the range, the values around zero and around the square
\* roots and halves of the bounds, and a strided sample
I8Samples ==
    {-128, -127, -126, -65, -64, -63, -12, -11, -2, -1, 0, 1, 2, 11, 12,
     63, 64, 65, 126, 127}
        \cup {INT8_MIN + k * I8Step : k \in 0..(255 \div I8Step)}

\* a call name(p, q) that returned the rf_i8 res
I8Returned(name, p, q, res) ==
    /\ w' = 8
    /\ op' = name
    /\ src' = "caller"
    /\ a' = p
    /\ b' = q
    /\ r' = res
    /\ overflow' = FALSE
    /\ UNCHANGED <<x, fpu, da, db, dr, glbflags, heap, proc, sa, sb, thr,
                   tls, tracking, y>>

\* a call name(p, q) that returned the rf_i8_result res
I8Checked(name, p, q, res) ==
    /\ w' = 8
    /\ op' = name
    /\ src' = "caller"
    /\ a' = p
    /\ b' = q
    /\ r' = res.value
    /\ overflow' = res.overflow
    /\ UNCHANGED <<x, fpu, da, db, dr, glbflags, heap, proc, sa, sb, thr,
                   tls, tracking, y>>

I8Wrap ==
    /\ op = "none"
    /\ \E p \in I8Samples, q \in I8Samples :
        \/ I8Returned("rf_i8_add_wrap", p, q, rf_i8_add_wrap(p, q))
        \/ I8Returned("rf_i8_sub_wrap", p, q, rf_i8_sub_wrap(p, q))
        \/ I8Returned("rf_i8_mul_wrap", p, q, rf_i8_mul_wrap(p, q))

I8Saturate ==
    /\ op = "none"
    /\ \E p \in I8Samples, q \in I8Samples :
        \/ I8Returned("rf_i8_add_saturate", p, q, rf_i8_add_saturate(p, q))
        \/ I8Returned("rf_i8_sub_saturate", p, q, rf_i8_sub_saturate(p, q))

I8CheckedCall ==
    /\ op = "none"
    /\ \E p \in I8Samples, q \in I8Samples :
        \/ I8Checked("rf_i8_add_checked", p, q, rf_i8_add_checked(p, q))
        \/ I8Checked("rf_i8_sub_checked", p, q, rf_i8_sub_checked(p, q))
        \/ I8Checked("rf_i8_mul_checked", p, q, rf_i8_mul_checked(p, q))

NextI8 == I8Wrap \/ I8Saturate \/ I8CheckedCall

SpecI8 == Init /\ [][NextI8]_vars

\* the sum, difference or product of the operands as integers
MathResult(name, p, q) ==
    CASE name \in {"rf_i8_add_wrap", "rf_i8_add_saturate", "rf_i8_add_checked"}
            -> p + q
      [] name \in {"rf_i8_sub_wrap", "rf_i8_sub_saturate", "rf_i8_sub_checked"}
            -> p - q
      [] name \in {"rf_i8_mul_wrap", "rf_i8_mul_checked"} -> p * q

\* the wrapping operation that goes with a checked one
WrapOf(name, p, q) ==
    CASE name = "rf_i8_add_checked" -> rf_i8_add_wrap(p, q)
      [] name = "rf_i8_sub_checked" -> rf_i8_sub_wrap(p, q)
      [] name = "rf_i8_mul_checked" -> rf_i8_mul_wrap(p, q)

I8WrapOps == {"rf_i8_add_wrap", "rf_i8_sub_wrap", "rf_i8_mul_wrap"}

I8SaturateOps == {"rf_i8_add_saturate", "rf_i8_sub_saturate"}

I8CheckedOps == {"rf_i8_add_checked", "rf_i8_sub_checked", "rf_i8_mul_checked"}

\* v is in -128..127 and differs from m by a multiple of 2^8
Reduced8(v, m) == v \in INT8_MIN..INT8_MAX /\ (v - m) % 256 = 0

\* C30: a checked operation returns overflow exactly when the sum,
\* difference or product lies outside -128..127, and as value what the
\* wrapping operation returns, the result reduced modulo 2^8 into -128..127;
\* the saturating addition and subtraction return the result clamped to
\* -128..127.
C30_CheckedWrapSaturate ==
    (w = 8 /\ op \in I8WrapOps \cup I8SaturateOps \cup I8CheckedOps) =>
        LET m == MathResult(op, a, b)
        IN  /\ op \in I8CheckedOps =>
                  /\ overflow <=> (m < INT8_MIN \/ m > INT8_MAX)
                  /\ r = WrapOf(op, a, b)
                  /\ Reduced8(r, m)
            /\ op \in I8WrapOps => Reduced8(r, m)
            /\ op \in I8SaturateOps =>
                  r = (IF m > INT8_MAX THEN INT8_MAX
                       ELSE IF m < INT8_MIN THEN INT8_MIN ELSE m)

\* rf_i8_mul_checked(-128, -128): the product 16384 is reported as an
\* overflow with the value 0
C30_Witness ==
    /\ w = 8 /\ op = "rf_i8_mul_checked"
    /\ a = -128 /\ b = -128 /\ r = 0 /\ overflow

\* rf_i8_add_checked(127, 1) has returned -128 with the overflow flag
C30_WitnessAdd ==
    /\ w = 8 /\ op = "rf_i8_add_checked"
    /\ a = 127 /\ b = 1 /\ r = -128 /\ overflow

\* rf_i8_sub_saturate(-128, 1) has returned -128
C30_WitnessSaturate ==
    /\ w = 8 /\ op = "rf_i8_sub_saturate" /\ a = -128 /\ b = 1 /\ r = -128

\* rf_i8_sub_checked(-1, -128) has returned 127 without the overflow flag
C30_WitnessExact ==
    /\ w = 8 /\ op = "rf_i8_sub_checked"
    /\ a = -1 /\ b = -128 /\ r = 127 /\ ~overflow

====
